---- MODULE Spec2Model ----
(***************************************************************************)
(* The scraping front-end of TP2 (server_scraping.py) as a state machine:  *)
(* the TaskManager, the ResultCache, the DomainRateLimiter, the HTTP       *)
(* handlers and the background pipeline process_scrape_task.               *)
(*                                                                         *)
(* The front-end runs on one asyncio event loop.  An asyncio.Lock that is  *)
(* free is acquired without yielding, and no critical section of the three *)
(* managers awaits, so every manager operation is atomic and a coroutine   *)
(* is only suspended at request.json(), at the HTTP fetch and at the RPC   *)
(* call.  Each action below is the code between two such suspensions.      *)
(***************************************************************************)
EXTENDS Integers, Sequences, FiniteSets, TLC

\* ---------------------------------------------------------------- bounds
MaxTasks == 2        \* task records created in one run
MaxTime == 120       \* the clock stops here (seconds)
TickSeconds == 60    \* the clock advances in steps of this many seconds
CacheTtl == 60       \* --cache-ttl of this run (seconds)
RateLimit == 2       \* --rate-limit of this run (requests per minute)
LimiterStep == 20    \* step of the clock when the limiter runs alone (seconds)
MaxFrames == 2       \* frames written on one connection
MaxInFlight == 1100000000   \* unread bytes on a connection when a frame is written

\* ------------------------------------------------------------- constants
Period == 60         \* DomainRateLimiter._period
FrontendFrameLimit == 100000000   \* largest length call_processing_server_async accepts
ServerFrameLimit == 1000000000    \* largest length recv_message accepts

\* Optional[T]: None is the empty sequence, a value v is <<v>>.
None == <<>>
Some(v) == <<v>>

\* Python truthiness of an Optional[str]: None and "" are falsy.
Truthy(o) == o # None /\ o[1] # ""

\* URLs a client may submit, and urlparse(url).hostname for each.
Urls == {"http://a/1", "http://b/1"}
NoHostUrl == "not a url"
hostname(url) ==
    CASE url = "http://a/1" -> Some("a")
      [] url = "http://b/1" -> Some("b")
      [] OTHER -> None

\* ---------------------------------------------------------------- state
VARIABLES
    now,        \* datetime.now(timezone.utc), in seconds
    tasks,      \* TaskManager._tasks
    hist,       \* per task, the values assigned to record.status, in order
    cache,      \* ResultCache._entries
    calls,      \* DomainRateLimiter._calls
    pc,         \* per task, where its process_scrape_task coroutine stands
    sdata,      \* per task, the coroutine's local scraping_data
    running,    \* app["running_tasks"]
    rpc_calls,  \* tasks for which call_processing_server_async was called
    last_set,   \* per url, the time and the data of the latest ResultCache.set
    accepted,   \* per domain, the times at which allow returned True, in order
    chan,       \* a TCP connection of the RPC: the bytes in flight and its reader
    sock,       \* a socket read by recv_all: the bytes the peer delivers and the loop's locals
    job,        \* a process_tasks call: its arguments, the analyzers that raise, its return value
    srv,        \* the processing server: its pool, its connections and their handlers
    loop,       \* the event loop's coroutines and the three asyncio locks
    raised,     \* the exception the latest TaskManager call raised, "" if it returned
    seo,        \* an evaluate_seo call: the document, how it is called, its return value
    bio         \* the biometric system of TP1: its pipes, its queue, its processes, the chain

\* ------------------------------------------------------------- TaskRecord
\* The fields the handlers and the pipeline read and write, and created_at,
\* whose default is the clock at construction; updated_at is a timestamp
\* nothing branches on and is left out.
NewRecord(task_id, url) ==
    [task_id |-> task_id, url |-> url, status |-> "pending",
     created_at |-> now, result |-> None, error |-> None]

\* ------------------------------------------------------------ TaskManager
\* Mutant: the id is derived so that it repeats the id of the latest record.
uuid4_not_fresh(ts) == IF ts = <<>> THEN 1 ELSE Len(ts)

\* _tasks is a dict keyed by the uuid4 hex of each record; the model issues
\* the ids 1, 2, ... in order, so _tasks is a sequence indexed by task id.
uuid4(ts) == Len(ts) + 1

\* self._tasks[record.task_id] = record
create_task(ts, url) ==
    LET record == NewRecord(uuid4(ts), url)
    IN IF record.task_id \in DOMAIN ts
       THEN [ts EXCEPT ![record.task_id] = record]
       ELSE Append(ts, record)

get(ts, task_id) == IF task_id \in DOMAIN ts THEN Some(ts[task_id]) ELSE None

\* Mutant: the error keyword is not stored.
set_status_drops_error(ts, task_id, status, error) ==
    [ts EXCEPT ![task_id].status = status, ![task_id].error = None]

set_status(ts, task_id, status, error) ==
    [ts EXCEPT ![task_id].status = status, ![task_id].error = error]

\* Mutant: the status is set but the result is not attached.
set_result_not_attached(ts, task_id, result, status) ==
    [ts EXCEPT ![task_id].status = status, ![task_id].error = None]

set_result(ts, task_id, result, status) ==
    [ts EXCEPT ![task_id].result = Some(result),
               ![task_id].status = status,
               ![task_id].error = None]

\* ------------------------------------------------------------ ResultCache
\* _entries maps a url to (timestamp, data); an absent key is None.
\* get returns the pair <<returned value, _entries afterwards>>.
\* Mutant: an entry exactly TTL seconds old is already expired.
ResultCache_get_exclusive(entries, url, t) ==
    IF entries[url] = None THEN <<None, entries>>
    ELSE IF t - entries[url][1].timestamp >= CacheTtl
         THEN <<None, [entries EXCEPT ![url] = None]>>
         ELSE <<Some(entries[url][1].data), entries>>

\* Mutant: a hit refreshes the insertion time of the entry.
ResultCache_get_refreshes(entries, url, t) ==
    IF entries[url] = None THEN <<None, entries>>
    ELSE IF t - entries[url][1].timestamp > CacheTtl
         THEN <<None, [entries EXCEPT ![url] = None]>>
         ELSE <<Some(entries[url][1].data),
                [entries EXCEPT ![url] = Some([timestamp |-> t, data |-> entries[url][1].data])]>>

ResultCache_get(entries, url, t) ==
    IF entries[url] = None THEN <<None, entries>>
    ELSE IF t - entries[url][1].timestamp > CacheTtl
         THEN <<None, [entries EXCEPT ![url] = None]>>
         ELSE <<Some(entries[url][1].data), entries>>

ResultCache_set(entries, url, data, t) ==
    [entries EXCEPT ![url] = Some([timestamp |-> t, data |-> data])]

\* ------------------------------------------------------ DomainRateLimiter
\* Mutant: at most one expired timestamp is removed per call.
Purge_one_only(bucket, t) ==
    IF bucket # <<>> /\ t - Head(bucket) > Period THEN Tail(bucket) ELSE bucket

\* while bucket and now - bucket[0] > self._period: bucket.popleft()
RECURSIVE Purge(_, _)
Purge(bucket, t) ==
    IF bucket # <<>> /\ t - Head(bucket) > Period
    THEN Purge(Tail(bucket), t)
    ELSE bucket

\* Mutant: a rejected call is recorded in the bucket too.
allow_max_records_rejections(max, buckets, domain, t) ==
    IF max <= 0 THEN <<TRUE, buckets>>
    ELSE LET bucket == Purge(buckets[domain], t)
         IN <<Len(bucket) < max, [buckets EXCEPT ![domain] = Append(bucket, t)]>>

\* allow with self._max = max; returns the pair <<allowed, _calls afterwards>>.
allow_max(max, buckets, domain, t) ==
    IF max <= 0 THEN <<TRUE, buckets>>
    ELSE LET bucket == Purge(buckets[domain], t)
         IN IF Len(bucket) >= max
            THEN <<FALSE, [buckets EXCEPT ![domain] = bucket]>>
            ELSE <<TRUE, [buckets EXCEPT ![domain] = Append(bucket, t)]>>

\* Mutant: the bucket is full only when it holds more than max timestamps.
allow_admits_one_more(buckets, domain, t) ==
    LET bucket == Purge(buckets[domain], t)
    IN IF Len(bucket) > RateLimit
       THEN <<FALSE, [buckets EXCEPT ![domain] = bucket]>>
       ELSE <<TRUE, [buckets EXCEPT ![domain] = Append(bucket, t)]>>

\* The limiter of this run: max_requests_per_minute = --rate-limit.
allow(buckets, domain, t) == allow_max(RateLimit, buckets, domain, t)

Domains == {"a", "b"}


\* --------------------------------------------------------------- inputs
\* What POST/GET /scrape can carry: a body that is not JSON, a body with no
\* url, an empty url, a url with no host, a url with a host.
Requests ==
    {[json_ok |-> FALSE, url |-> None], [json_ok |-> TRUE, url |-> None],
     [json_ok |-> TRUE, url |-> Some("")],
     [json_ok |-> TRUE, url |-> Some(NoHostUrl)]}
    \cup {[json_ok |-> TRUE, url |-> Some(u)] : u \in Urls}

\* What client.fetch_text(url) can do: return a document, raise
\* asyncio.TimeoutError, or raise another exception whose str() is msg.
Htmls == {"<h1>x</h1>"}
FetchErrors == {"", "404, message='Not Found'"}
FetchOutcomes ==
    {[kind |-> "ok", html |-> h, msg |-> ""] : h \in Htmls}
    \cup {[kind |-> "timeout", html |-> "", msg |-> ""]}
    \cup {[kind |-> "error", html |-> "", msg |-> m] : m \in FetchErrors}

\* What call_processing_server_async can do: raise (connect failure, timeout,
\* invalid frame length, connection closed early, JSON decode error), or
\* return json.loads of the reply body, which is any JSON value.
EmptyDict == "{}"
RpcExceptions ==
    {[type |-> "ConnectionRefusedError", msg |-> "Connect call failed"],
     [type |-> "TimeoutError", msg |-> ""],
     [type |-> "ValueError", msg |-> "invalid size: 0"],
     [type |-> "IncompleteReadError", msg |-> "0 bytes read"],
     [type |-> "JSONDecodeError", msg |-> "Expecting value"]}
NoException == [type |-> "", msg |-> ""]
\* A JSON value: is_dict says whether it is an object, obj holds its keys.
JsonObject(o) == [is_dict |-> TRUE, obj |-> o]
JsonArray == [is_dict |-> FALSE, obj |-> [len |-> 0]]
\* The two replies ProcessingTCPHandler.handle sends.
ServerReplies ==
    {JsonObject([status |-> "success", processing_data |-> "{screenshot,...}"]),
     JsonObject([status |-> "error", error |-> "missing url"])}
\* Other JSON values a peer listening on proc_ip:proc_port can frame.
ForeignReplies ==
    {JsonObject([status |-> "error"]),
     JsonObject([status |-> "success", processing_data |-> "{screenshot,...}",
                 error |-> "warning"]),
     JsonArray}
RpcReplies == ServerReplies \cup ForeignReplies
RpcOutcomes ==
    {[kind |-> "raise", exc |-> e, reply |-> JsonArray] : e \in RpcExceptions}
    \cup {[kind |-> "return", exc |-> NoException, reply |-> r] : r \in RpcReplies}

\* dict.get(key, default)
dict_get(d, key, default) == IF key \in DOMAIN d THEN d[key] ELSE default

vars == <<now, tasks, hist, cache, calls, pc, sdata, running, rpc_calls, last_set, accepted, chan, sock, job, srv, loop, raised, seo, bio>>

TaskIds == DOMAIN tasks

\* The variables of the scraping front-end and of its RPC connection.
FrontEnd == <<now, tasks, hist, cache, calls, pc, sdata, running, rpc_calls,
              last_set, accepted, chan>>

\* No recv_all call has been made: nothing arrived, the peer has not closed.
NoCall == [state |-> "idle", buf |-> <<>>, sent |-> 0, closed |-> FALSE,
           nbytes |-> 0, remaining |-> 0, chunks |-> <<>>, asked |-> <<>>,
           ret |-> <<>>]

\* No process_tasks call has been made.
NoJob == [state |-> "idle"]

\* The processing server has not been started.
NoServer == [state |-> "down"]

\* No coroutine has been created.
NoLoop == [state |-> "idle"]

\* evaluate_seo has not been called.
NoSeoCall == [state |-> "idle"]

\* The biometric system has not been started.
NoSystem == [state |-> "down"]

\* No connection to the processing server is open.
NoConnection == [dir |-> "", wire |-> <<>>, eof |-> FALSE, queue |-> <<>>, reads |-> <<>>]

NoResponse == [status |-> 0, body |-> [status |-> "none"]]
json_response(body, status) == [status |-> status, body |-> body]

\* build_app
Init ==
    /\ now = 0
    /\ tasks = <<>>
    /\ hist = <<>>
    /\ cache = [u \in Urls |-> None]
    /\ calls = [d \in Domains |-> <<>>]
    /\ pc = <<>>
    /\ sdata = <<>>
    /\ running = {}
    /\ rpc_calls = {}
    /\ last_set = [u \in Urls |-> None]
    /\ accepted = [d \in Domains |-> <<>>]
    /\ chan = NoConnection
    /\ sock = NoCall
    /\ job = NoJob
    /\ srv = NoServer
    /\ loop = NoLoop
    /\ raised = ""
    /\ seo = NoSeoCall
    /\ bio = NoSystem

\* The wall clock advances.
Tick ==
    /\ now + TickSeconds <= MaxTime
    /\ now' = now + TickSeconds
    /\ UNCHANGED <<tasks, hist, cache, calls, pc, sdata, running, rpc_calls, last_set, accepted, chan, sock, job, srv, loop, raised, seo, bio>>


\* ------------------------------------------------------------ _extract_url
\* Mutant: a body without url falls back to a default url.
extract_url_default(req) ==
    IF ~req.json_ok
    THEN [ok |-> FALSE, url |-> "",
          response |-> [status |-> 400,
                        body |-> [status |-> "error", error |-> "Body invalido"]]]
    ELSE [ok |-> TRUE,
          url |-> IF Truthy(req.url) THEN req.url[1] ELSE "http://a/1",
          response |-> [status |-> 0, body |-> [status |-> "none"]]]

\* Either the url (ok) or the 400 response.
extract_url(req) ==
    IF ~req.json_ok
    THEN [ok |-> FALSE, url |-> "",
          response |-> json_response([status |-> "error", error |-> "Body invalido"], 400)]
    ELSE IF ~Truthy(req.url)
    THEN [ok |-> FALSE, url |-> "",
          response |-> json_response([status |-> "error", error |-> "Missing url param"], 400)]
    ELSE [ok |-> TRUE, url |-> req.url[1], response |-> NoResponse]

\* ----------------------------------------------------------- handle_scrape
\* What one call of handle_scrape does to the managers and what it answers:
\* scheduled is the task whose pipeline it handed to
\* schedule_background_task, if any.
Unchanged(response) ==
    [response |-> response, tasks |-> tasks, cache |-> cache, calls |-> calls,
     created |-> None, scheduled |-> None, domain |-> ""]

\* Mutant: the pipeline is scheduled on a cache hit too.
scrape_admitted_schedules_hit(url, buckets) ==
    LET id == uuid4(tasks)
        created == create_task(tasks, url)
        got == ResultCache_get(cache, url, now)
    IN IF got[1] # None
       THEN [response |-> json_response(
                 [task_id |-> id, status |-> "completed", cached |-> TRUE], 200),
             tasks |-> set_result(created, id, got[1][1], "completed"),
             cache |-> got[2], calls |-> buckets,
             created |-> Some(id), scheduled |-> Some(id), domain |-> hostname(url)[1]]
       ELSE [response |-> json_response(
                 [task_id |-> id, status |-> created[id].status], 202),
             tasks |-> created,
             cache |-> got[2], calls |-> buckets,
             created |-> Some(id), scheduled |-> Some(id), domain |-> hostname(url)[1]]

\* Mutant: the scheduled coroutine starts at once, so its first set_status
\* has run when the response is built.
scrape_admitted_eager_start(url, buckets) ==
    LET id == uuid4(tasks)
        created == create_task(tasks, url)
        got == ResultCache_get(cache, url, now)
        started == set_status(created, id, "scraping", None)
    IN IF got[1] # None
       THEN [response |-> json_response(
                 [task_id |-> id, status |-> "completed", cached |-> TRUE], 200),
             tasks |-> set_result(created, id, got[1][1], "completed"),
             cache |-> got[2], calls |-> buckets,
             created |-> Some(id), scheduled |-> None, domain |-> hostname(url)[1]]
       ELSE [response |-> json_response(
                 [task_id |-> id, status |-> started[id].status], 202),
             tasks |-> started,
             cache |-> got[2], calls |-> buckets,
             created |-> Some(id), scheduled |-> Some(id), domain |-> hostname(url)[1]]

\* From create_task on: the cache hit completes the task in the handler,
\* the miss schedules process_scrape_task for it.  (if cached: a result
\* document is never an empty dict, so it is truthy whenever it is not None.)
scrape_admitted(url, buckets) ==
    LET id == uuid4(tasks)
        created == create_task(tasks, url)
        got == ResultCache_get(cache, url, now)
        cached == got[1]
    IN IF cached # None
       THEN [response |-> json_response(
                 [task_id |-> id, status |-> "completed", cached |-> TRUE], 200),
             tasks |-> set_result(created, id, cached[1], "completed"),
             cache |-> got[2], calls |-> buckets,
             created |-> Some(id), scheduled |-> None, domain |-> hostname(url)[1]]
       ELSE [response |-> json_response(
                 [task_id |-> id, status |-> created[id].status], 202),
             tasks |-> created,
             cache |-> got[2], calls |-> buckets,
             created |-> Some(id), scheduled |-> Some(id), domain |-> hostname(url)[1]]

\* Mutant: the task is created before the rate limiter is consulted.
handle_scrape_creates_first(req) ==
    LET ex == extract_url(req)
        domain == hostname(ex.url)
        allowed == allow(calls, domain[1], now)
    IN IF ~ex.ok THEN Unchanged(ex.response)
       ELSE IF ~Truthy(domain)
       THEN Unchanged(json_response([status |-> "error", error |-> "URL invalida"], 400))
       ELSE IF ~allowed[1]
       THEN [response |-> json_response(
                 [status |-> "error", error |-> "Rate limit excedido para el dominio"],
                 429),
             tasks |-> create_task(tasks, ex.url), cache |-> cache,
             calls |-> allowed[2], created |-> Some(uuid4(tasks)),
             scheduled |-> None, domain |-> domain[1]]
       ELSE scrape_admitted(ex.url, allowed[2])

\* Mutant: the cache is consulted before the rate limiter, so a hit is
\* served without an admission.
handle_scrape_cache_first(req) ==
    LET ex == extract_url(req)
        domain == hostname(ex.url)
        allowed == allow(calls, domain[1], now)
    IN IF ~ex.ok THEN Unchanged(ex.response)
       ELSE IF ~Truthy(domain)
       THEN Unchanged(json_response([status |-> "error", error |-> "URL invalida"], 400))
       ELSE IF ResultCache_get(cache, ex.url, now)[1] # None
       THEN scrape_admitted(ex.url, calls)
       ELSE IF ~allowed[1]
       THEN [Unchanged(json_response(
                 [status |-> "error", error |-> "Rate limit excedido para el dominio"],
                 429)) EXCEPT !.calls = allowed[2]]
       ELSE scrape_admitted(ex.url, allowed[2])

handle_scrape(req) ==
    LET ex == extract_url(req)
        domain == hostname(ex.url)
        allowed == allow(calls, domain[1], now)
    IN IF ~ex.ok THEN Unchanged(ex.response)
       ELSE IF ~Truthy(domain)
       THEN Unchanged(json_response([status |-> "error", error |-> "URL invalida"], 400))
       ELSE IF ~allowed[1]
       THEN [Unchanged(json_response(
                 [status |-> "error", error |-> "Rate limit excedido para el dominio"],
                 429)) EXCEPT !.calls = allowed[2]]
       ELSE scrape_admitted(ex.url, allowed[2])

\* The statuses one handle_scrape call assigns to the record it creates.
StatusesWritten(out) ==
    IF out.scheduled = None THEN <<"pending", "completed">> ELSE <<"pending">>

HandleScrape(req) ==
    LET out == handle_scrape(req)
    IN /\ Len(out.tasks) <= MaxTasks
       /\ tasks' = out.tasks
       /\ cache' = out.cache
       /\ calls' = out.calls
       /\ UNCHANGED <<now, rpc_calls, last_set, chan, sock, job, srv, loop, raised, seo, bio>>
       /\ IF out.created = None
          THEN UNCHANGED <<hist, pc, sdata, running, accepted>>
          ELSE /\ hist' = Append(hist, StatusesWritten(out))
               /\ accepted' = [accepted EXCEPT ![out.domain] = Append(@, now)]
               /\ sdata' = Append(sdata, None)
               /\ pc' = Append(pc, IF out.scheduled = None THEN "none" ELSE "scheduled")
               /\ running' = IF out.scheduled = None THEN running
                             ELSE running \cup {out.scheduled[1]}

\* ----------------------------------------------------------- handle_status
as_status_payload(record) ==
    LET base == [task_id |-> record.task_id, url |-> record.url,
                 status |-> record.status]
        with_error == IF Truthy(record.error)
                      THEN base @@ [error |-> record.error[1]] ELSE base
    IN IF record.result # None /\ "status" \in DOMAIN record.result[1]
       THEN with_error @@ [result_status |-> record.result[1].status]
       ELSE with_error

NotFoundResponse == json_response([status |-> "error", error |-> "task_id inexistente"], 404)

\* The response of GET /status/{task_id} in the current state.
handle_status(task_id) ==
    LET record == get(tasks, task_id)
    IN IF record = None THEN NotFoundResponse
       ELSE json_response(as_status_payload(record[1]), 200)

\* The handler reads the record and assigns nothing.
HandleStatus(task_id) ==
    /\ handle_status(task_id).status \in {200, 404}
    /\ UNCHANGED vars

\* ----------------------------------------------------------- handle_result
\* Mutant: every task without a result is reported as not finished yet.
handle_result_hides_failure(task_id) ==
    LET record == get(tasks, task_id)
    IN IF record = None THEN NotFoundResponse
       ELSE IF record[1].status # "completed" \/ record[1].result = None
       THEN json_response(
                [status |-> "pending", message |-> "La tarea aun no finalizo"], 202)
       ELSE json_response([task_id |-> task_id] @@ record[1].result[1], 200)

\* The response of GET /result/{task_id} in the current state.
handle_result(task_id) ==
    LET record == get(tasks, task_id)
    IN IF record = None THEN NotFoundResponse
       ELSE IF record[1].status # "completed" \/ record[1].result = None
       THEN IF record[1].status = "failed"
            THEN json_response(
                     [status |-> "error",
                      error |-> IF Truthy(record[1].error) THEN record[1].error[1]
                                ELSE "Tarea fallida"], 500)
            ELSE json_response(
                     [status |-> "pending", message |-> "La tarea aun no finalizo"], 202)
       ELSE json_response([task_id |-> task_id] @@ record[1].result[1], 200)

\* Mutant: payload = record.result without the copy, so the handler writes
\* task_id into the dict the record holds, which is also the dict the cache
\* holds when the entry was set from, or served to, that record.
HandleResult_in_place(task_id) ==
    /\ handle_result(task_id).status = 200
    /\ tasks' = [tasks EXCEPT ![task_id].result =
                    Some([task_id |-> task_id] @@ tasks[task_id].result[1])]
    /\ cache' = [u \in DOMAIN cache |->
                    IF cache[u] # None /\ Some(cache[u][1].data) = tasks[task_id].result
                    THEN Some([cache[u][1] EXCEPT !.data = [task_id |-> task_id] @@ @])
                    ELSE cache[u]]
    /\ UNCHANGED <<now, hist, calls, pc, sdata, running, rpc_calls, last_set, accepted,
                   chan, sock, job, srv, loop, raised, seo, bio>>

\* payload = dict(record.result) is a copy: the handler assigns nothing to
\* the record.
HandleResult(task_id) ==
    /\ handle_result(task_id).status \in {200, 202, 404, 500}
    /\ UNCHANGED vars

\* ------------------------------------------------------ process_scrape_task
\* parse_basic_structure and extract_meta_tags: scraping_data is a function
\* of the document alone.
scraping_data_of(html) == [title |-> html]

\* The reply call_processing_server_async gave, or the dict the pipeline
\* builds from the exception it raised.
processing_response_of(outcome) ==
    IF outcome.kind = "raise"
    THEN [status |-> "error", processing_data |-> EmptyDict,
          error |-> outcome.exc.type \o ": " \o outcome.exc.msg]
    ELSE outcome.reply.obj

\* The result document built from the processing response.
merge_result(url, t, scraping_data, processing_response) ==
    LET result == [url |-> url, timestamp |-> t,
                   scraping_data |-> scraping_data,
                   processing_data |->
                       dict_get(processing_response, "processing_data", EmptyDict),
                   status |->
                       IF dict_get(processing_response, "status", "None") = "success"
                       THEN "success" ELSE "partial"]
    IN IF "error" \in DOMAIN processing_response
       THEN result @@ [processing_error |-> processing_response["error"]]
       ELSE result

\* await manager.set_status(task_id, status, error=error)
SetStatus(t, status, error) ==
    /\ tasks' = set_status(tasks, t, status, error)
    /\ hist' = [hist EXCEPT ![t] = Append(@, status)]

\* The coroutine ended (returned, or raised CancelledError): asyncio schedules
\* the done callback, which runs in a later iteration of the loop.
Finish(t, how) == pc' = [pc EXCEPT ![t] = how]

\* Mutant: the coroutine starts the fetch without set_status("scraping").
PipelineStart_no_status(t) ==
    /\ t \in TaskIds
    /\ pc[t] = "scheduled"
    /\ pc' = [pc EXCEPT ![t] = "fetching"]
    /\ UNCHANGED <<now, tasks, hist, cache, calls, sdata, running, rpc_calls, last_set, accepted, chan, sock, job, srv, loop, raised, seo, bio>>

\* The first step of the coroutine: set_status("scraping"), then the fetch
\* is awaited.
PipelineStart(t) ==
    /\ t \in TaskIds
    /\ pc[t] = "scheduled"
    /\ SetStatus(t, "scraping", None)
    /\ pc' = [pc EXCEPT ![t] = "fetching"]
    /\ UNCHANGED <<now, cache, calls, sdata, running, rpc_calls, last_set, accepted, chan, sock, job, srv, loop, raised, seo, bio>>

\* Mutant: the exception is swallowed and the record is left as it is.
PipelineFailed_silently(t, error) ==
    /\ UNCHANGED <<tasks, hist>>
    /\ Finish(t, "returned")

\* An except clause of the outer try: set_status("failed", error=...), and
\* the coroutine returns.
PipelineFailed(t, error) ==
    /\ SetStatus(t, "failed", Some(error))
    /\ Finish(t, "returned")

\* Mutant: except Exception comes first and catches the timeout too.
fetch_error_str(outcome) == outcome.msg

\* The error the outer try records for an exception of the fetch:
\* except asyncio.TimeoutError gives "Timeout", except Exception gives str(exc).
fetch_error(outcome) ==
    IF outcome.kind = "timeout" THEN "Timeout" ELSE outcome.msg

\* fetch_text returned or raised.
PipelineFetched(t, outcome) ==
    /\ t \in TaskIds
    /\ pc[t] = "fetching"
    /\ UNCHANGED <<now, cache, calls, running, last_set, accepted, chan, sock, job, srv, loop, raised, seo, bio>>
    /\ CASE outcome.kind = "ok" ->
              /\ SetStatus(t, "processing", None)
              /\ sdata' = [sdata EXCEPT ![t] = Some(scraping_data_of(outcome.html))]
              /\ rpc_calls' = rpc_calls \cup {t}
              /\ pc' = [pc EXCEPT ![t] = "rpc"]
         [] outcome.kind \in {"timeout", "error"} ->
              /\ PipelineFailed(t, fetch_error(outcome))
              /\ UNCHANGED <<sdata, rpc_calls>>

\* Mutant: cache.set keeps the entry a sibling pipeline wrote before.
PipelinePublish_keeps_first(t, result) ==
    /\ tasks' = set_result(tasks, t, result, "completed")
    /\ hist' = [hist EXCEPT ![t] = Append(@, "completed")]
    /\ cache' = IF cache[tasks[t].url] = None
                THEN ResultCache_set(cache, tasks[t].url, result, now)
                ELSE cache
    /\ last_set' = [last_set EXCEPT ![tasks[t].url] = Some([at |-> now, data |-> result])]
    /\ Finish(t, "returned")

\* set_result(task_id, result, status="completed"); cache.set(url, result)
PipelinePublish(t, result) ==
    /\ tasks' = set_result(tasks, t, result, "completed")
    /\ hist' = [hist EXCEPT ![t] = Append(@, "completed")]
    /\ cache' = ResultCache_set(cache, tasks[t].url, result, now)
    /\ last_set' = [last_set EXCEPT ![tasks[t].url] = Some([at |-> now, data |-> result])]
    /\ Finish(t, "returned")

\* call_processing_server_async returned or raised.
PipelineProcessed(t, outcome) ==
    /\ t \in TaskIds
    /\ pc[t] = "rpc"
    /\ UNCHANGED <<now, calls, sdata, running, rpc_calls, accepted, chan, sock, job, srv, loop, raised, seo, bio>>
    /\ IF outcome.kind = "return" /\ ~outcome.reply.is_dict
       THEN \* processing_response.get raises AttributeError outside the inner try
            /\ PipelineFailed(t, "'list' object has no attribute 'get'")
            /\ UNCHANGED <<cache, last_set>>
       ELSE PipelinePublish(t, merge_result(tasks[t].url, now, sdata[t][1],
                                            processing_response_of(outcome)))

\* task.cancel() on a pipeline that has not ended: CancelledError is thrown
\* into the coroutine where it is suspended.  It is a BaseException, so
\* neither except clause of process_scrape_task catches it.
Cancel(t) ==
    /\ t \in TaskIds
    /\ pc[t] \in {"scheduled", "fetching", "rpc"}
    /\ Finish(t, "cancelled")
    /\ UNCHANGED <<now, tasks, hist, cache, calls, sdata, running, rpc_calls, last_set, accepted, chan, sock, job, srv, loop, raised, seo, bio>>

\* Mutant: the callback is attached so that it runs at any moment.
DoneCallback_any_time(t) ==
    /\ t \in TaskIds
    /\ t \in running
    /\ running' = running \ {t}
    /\ UNCHANGED <<now, tasks, hist, cache, calls, pc, sdata, rpc_calls, last_set, accepted, chan, sock, job, srv, loop, raised, seo, bio>>

\* schedule_background_task's done callback: running.discard(t).
DoneCallback(t) ==
    /\ t \in TaskIds
    /\ pc[t] \in {"returned", "cancelled"}
    /\ t \in running
    /\ running' = running \ {t}
    /\ UNCHANGED <<now, tasks, hist, cache, calls, pc, sdata, rpc_calls, last_set, accepted, chan, sock, job, srv, loop, raised, seo, bio>>

\* ------------------------------------------------------------------ Spec
QueryIds == 0..MaxTasks

\* The event loop runs a step of some background task.
Pipeline ==
    \E t \in 1..MaxTasks :
        \/ PipelineStart(t)
        \/ \E o \in FetchOutcomes : PipelineFetched(t, o)
        \/ \E o \in RpcOutcomes : PipelineProcessed(t, o)
        \/ DoneCallback(t)

\* The event loop runs a request handler.
Handlers ==
    \/ \E req \in Requests : HandleScrape(req)
    \/ \E id \in QueryIds : HandleStatus(id)
    \/ \E id \in QueryIds : HandleResult(id)

Next ==
    \/ Tick
    \/ Handlers
    \/ Pipeline
    \/ \E t \in 1..MaxTasks : Cancel(t)

Spec == Init /\ [][Next]_vars

\* No pipeline is cancelled, and the loop keeps running the background tasks:
\* every fetch and every RPC call returns or raises.
LiveNext ==
    \/ Tick
    \/ Handlers
    \/ Pipeline

LiveSpec == Init /\ [][LiveNext]_vars /\ WF_vars(Pipeline)

\* The DomainRateLimiter alone, under any sequence of allow calls on any
\* domains, with a clock that advances in steps of LimiterStep seconds.
LimiterTick ==
    /\ now + LimiterStep <= MaxTime
    /\ now' = now + LimiterStep
    /\ UNCHANGED <<tasks, hist, cache, calls, pc, sdata, running, rpc_calls, last_set, accepted, chan, sock, job, srv, loop, raised, seo, bio>>

AllowOp(domain) ==
    LET ret == allow(calls, domain, now)
    IN /\ calls' = ret[2]
       /\ accepted' = IF ret[1] THEN [accepted EXCEPT ![domain] = Append(@, now)]
                      ELSE accepted
       /\ UNCHANGED <<now, tasks, hist, cache, pc, sdata, running, rpc_calls, last_set, chan, sock, job, srv, loop, raised, seo, bio>>

LimiterNext ==
    \/ LimiterTick
    \/ \E d \in Domains : AllowOp(d)

LimiterSpec == Init /\ [][LimiterNext]_vars

\* The ResultCache alone, under any sequence of get and set.
CacheData == {[status |-> "success"], [status |-> "partial"]}

CacheSetOp(url, data) ==
    /\ cache' = ResultCache_set(cache, url, data, now)
    /\ last_set' = [last_set EXCEPT ![url] = Some([at |-> now, data |-> data])]
    /\ UNCHANGED <<now, tasks, hist, calls, pc, sdata, running, rpc_calls, accepted, chan, sock, job, srv, loop, raised, seo, bio>>

CacheGetOp(url) ==
    /\ cache' = ResultCache_get(cache, url, now)[2]
    /\ UNCHANGED <<now, tasks, hist, calls, pc, sdata, running, rpc_calls, last_set, accepted, chan, sock, job, srv, loop, raised, seo, bio>>

CacheNext ==
    \/ Tick
    \/ \E u \in Urls, d \in CacheData : CacheSetOp(u, d)
    \/ \E u \in Urls : CacheGetOp(u)

CacheSpec == Init /\ [][CacheNext]_vars

\* ================================================== common/protocol.py
\* A byte string is a sequence of runs [c |-> byte, n |-> count]: the byte c
\* repeated n times.  A str is the same with code points for bytes.
Run(c, n) == [c |-> c, n |-> n]

RECURSIVE ByteLen(_)
ByteLen(bs) == IF bs = <<>> THEN 0 ELSE Head(bs).n + ByteLen(Tail(bs))

\* The first k bytes of bs, and bs without them.
RECURSIVE TakeBytes(_, _)
TakeBytes(bs, k) ==
    IF k <= 0 \/ bs = <<>> THEN <<>>
    ELSE IF Head(bs).n <= k
         THEN <<Head(bs)>> \o TakeBytes(Tail(bs), k - Head(bs).n)
         ELSE <<Run(Head(bs).c, k)>>

RECURSIVE DropBytes(_, _)
DropBytes(bs, k) ==
    IF k <= 0 \/ bs = <<>> THEN bs
    ELSE IF Head(bs).n <= k
         THEN DropBytes(Tail(bs), k - Head(bs).n)
         ELSE <<Run(Head(bs).c, Head(bs).n - k)>> \o Tail(bs)

\* The code points and bytes the documents of the model are made of.
Ch == [lbrace |-> 123, rbrace |-> 125, quote |-> 34, colon |-> 58,
       comma |-> 44, zero |-> 48, x |-> 120, enie |-> 241,
       utf8_lead |-> 195, utf8_cont |-> 177]
KeyChars == {97, 98}
Digits == 0..9

\* struct.pack("!I", n): four bytes, most significant first.
pack_I(n) ==
    <<Run(n \div 16777216, 1), Run((n \div 65536) % 256, 1),
      Run((n \div 256) % 256, 1), Run(n % 256, 1)>>

\* struct.unpack("!I", header) of four single bytes.
unpack_I(header) ==
    header[1].c * 16777216 + header[2].c * 65536 + header[3].c * 256 + header[4].c

\* A JSON object is the sequence of its pairs [k, v] in insertion order; a
\* value is a one-digit integer or a string of x and n-with-tilde.
IntValue(i) == [kind |-> "int", int |-> i, chars |-> <<>>]
StrValue(chars) == [kind |-> "str", int |-> 0, chars |-> chars]
Pair(k, v) == [k |-> k, v |-> v]

\* json.dumps(value, separators=(",", ":"), ensure_ascii=False)
dumps_value(v) ==
    IF v.kind = "int" THEN <<Run(Ch.zero + v.int, 1)>>
    ELSE <<Run(Ch.quote, 1)>> \o v.chars \o <<Run(Ch.quote, 1)>>

dumps_pair(p) ==
    <<Run(Ch.quote, 1), Run(p.k, 1), Run(Ch.quote, 1), Run(Ch.colon, 1)>>
    \o dumps_value(p.v)

RECURSIVE dumps_pairs(_)
dumps_pairs(m) ==
    IF m = <<>> THEN <<>>
    ELSE IF Len(m) = 1 THEN dumps_pair(m[1])
    ELSE dumps_pair(m[1]) \o <<Run(Ch.comma, 1)>> \o dumps_pairs(Tail(m))

dumps(m) == <<Run(Ch.lbrace, 1)>> \o dumps_pairs(m) \o <<Run(Ch.rbrace, 1)>>

\* str.encode("utf-8"): a code point below 128 is one byte, n-with-tilde is
\* the two bytes C3 B1.
RECURSIVE encode_run(_, _)
encode_run(c, n) ==
    IF c < 128 THEN <<Run(c, n)>>
    ELSE IF n = 0 THEN <<>>
    ELSE <<Run(Ch.utf8_lead, 1), Run(Ch.utf8_cont, 1)>> \o encode_run(c, n - 1)

RECURSIVE encode_utf8(_)
encode_utf8(text) ==
    IF text = <<>> THEN <<>>
    ELSE encode_run(Head(text).c, Head(text).n) \o encode_utf8(Tail(text))

\* bytes.decode("utf-8"): ok is false for UnicodeDecodeError.
RECURSIVE decode_utf8(_)
decode_utf8(bs) ==
    IF bs = <<>> THEN [ok |-> TRUE, text |-> <<>>]
    ELSE IF Head(bs).c < 128
    THEN LET rest == decode_utf8(Tail(bs))
         IN [ok |-> rest.ok, text |-> <<Head(bs)>> \o rest.text]
    ELSE IF /\ Len(bs) >= 2
            /\ Head(bs) = Run(Ch.utf8_lead, 1)
            /\ bs[2] = Run(Ch.utf8_cont, 1)
    THEN LET rest == decode_utf8(Tail(Tail(bs)))
         IN [ok |-> rest.ok, text |-> <<Run(Ch.enie, 1)>> \o rest.text]
    ELSE [ok |-> FALSE, text |-> <<>>]

\* json.loads of a string value: the characters up to the closing quote.
RECURSIVE loads_chars(_, _)
loads_chars(text, acc) ==
    IF text = <<>> THEN [ok |-> FALSE, chars |-> <<>>, rest |-> <<>>]
    ELSE IF Head(text) = Run(Ch.quote, 1)
    THEN [ok |-> TRUE, chars |-> acc, rest |-> Tail(text)]
    ELSE IF Head(text).c \in {Ch.x, Ch.enie}
    THEN loads_chars(Tail(text), Append(acc, Head(text)))
    ELSE [ok |-> FALSE, chars |-> <<>>, rest |-> <<>>]

loads_value(text) ==
    IF text = <<>> THEN [ok |-> FALSE, v |-> IntValue(0), rest |-> <<>>]
    ELSE IF Head(text).n = 1 /\ Head(text).c - Ch.zero \in Digits
    THEN [ok |-> TRUE, v |-> IntValue(Head(text).c - Ch.zero), rest |-> Tail(text)]
    ELSE IF Head(text) = Run(Ch.quote, 1)
    THEN LET s == loads_chars(Tail(text), <<>>)
         IN [ok |-> s.ok, v |-> StrValue(s.chars), rest |-> s.rest]
    ELSE [ok |-> FALSE, v |-> IntValue(0), rest |-> <<>>]

\* json.loads of the pairs of an object, after the opening brace.
RECURSIVE loads_pairs(_, _)
loads_pairs(text, acc) ==
    IF \/ Len(text) < 6
       \/ text[1] # Run(Ch.quote, 1)
       \/ text[2].n # 1 \/ text[2].c \notin KeyChars
       \/ text[3] # Run(Ch.quote, 1)
       \/ text[4] # Run(Ch.colon, 1)
    THEN [ok |-> FALSE, m |-> <<>>]
    ELSE LET val == loads_value(SubSeq(text, 5, Len(text)))
             got == Append(acc, Pair(text[2].c, val.v))
         IN IF ~val.ok \/ val.rest = <<>> THEN [ok |-> FALSE, m |-> <<>>]
            ELSE IF val.rest = <<Run(Ch.rbrace, 1)>> THEN [ok |-> TRUE, m |-> got]
            ELSE IF Head(val.rest) = Run(Ch.comma, 1)
            THEN loads_pairs(Tail(val.rest), got)
            ELSE [ok |-> FALSE, m |-> <<>>]

\* json.loads(text) for a text that is a JSON object; ok is false for
\* JSONDecodeError.
loads(text) ==
    IF text = <<>> \/ Head(text) # Run(Ch.lbrace, 1) THEN [ok |-> FALSE, m |-> <<>>]
    ELSE IF Tail(text) = <<Run(Ch.rbrace, 1)>> THEN [ok |-> TRUE, m |-> <<>>]
    ELSE loads_pairs(Tail(text), <<>>)

\* Mutant: the header carries the number of characters of the document.
send_message_counts_chars(payload) ==
    pack_I(ByteLen(dumps(payload))) \o encode_utf8(dumps(payload))

\* send_message: the bytes handed to sock.sendall, header + data.
send_message(payload) ==
    LET data == encode_utf8(dumps(payload))
    IN pack_I(ByteLen(data)) \o data

\* The writer of call_processing_server_async: writer.write(header + data).
write_request(payload) ==
    LET data == encode_utf8(dumps(payload))
    IN pack_I(ByteLen(data)) \o data

\* Reading exactly nbytes from a connection whose unread bytes are wire and
\* whose peer has (eof) or has not closed: the bytes, or the failure of a
\* connection closed too early, or blocked while the bytes may still come.
read_exactly(wire, eof, nbytes) ==
    IF ByteLen(wire) >= nbytes
    THEN [ok |-> TRUE, blocked |-> FALSE,
          data |-> TakeBytes(wire, nbytes), rest |-> DropBytes(wire, nbytes)]
    ELSE [ok |-> FALSE, blocked |-> ~eof, data |-> wire, rest |-> <<>>]

\* recv_all(sock, nbytes): raises ConnectionError when recv returns b"".
recv_all(wire, eof, nbytes) == read_exactly(wire, eof, nbytes)

\* reader.readexactly(n): raises IncompleteReadError at end of stream.
readexactly(wire, eof, nbytes) == read_exactly(wire, eof, nbytes)

\* What a frame reader gives: the decoded object or the exception raised,
\* the number of bytes it took from the connection, and the bytes left.
Blocked == [blocked |-> TRUE, ok |-> FALSE, err |-> "", value |-> <<>>,
            consumed |-> 0, rest |-> <<>>]
Raised(err, consumed, rest) ==
    [blocked |-> FALSE, ok |-> FALSE, err |-> err, value |-> <<>>,
     consumed |-> consumed, rest |-> rest]
Returned(value, consumed, rest) ==
    [blocked |-> FALSE, ok |-> TRUE, err |-> "", value |-> value,
     consumed |-> consumed, rest |-> rest]

\* json.loads(data.decode("utf-8")) of a frame body of `length` bytes.
loads_body(data, length, rest) ==
    LET text == decode_utf8(data)
        doc == loads(text.text)
    IN IF ~text.ok THEN Raised("UnicodeDecodeError", 4 + length, rest)
       ELSE IF ~doc.ok THEN Raised("JSONDecodeError", 4 + length, rest)
       ELSE Returned(doc.m, 4 + length, rest)

\* recv_message of common/protocol.py, the reader of the processing server.
recv_message(wire, eof) ==
    LET header == recv_all(wire, eof, 4)
        length == unpack_I(header.data)
        body == recv_all(header.rest, eof, length)
    IN IF header.blocked THEN Blocked
       ELSE IF ~header.ok THEN Raised("ConnectionError", ByteLen(wire), <<>>)
       ELSE IF length <= 0 \/ length > ServerFrameLimit
       THEN Raised("ValueError", 4, header.rest)
       ELSE IF body.blocked THEN Blocked
       ELSE IF ~body.ok THEN Raised("ConnectionError", ByteLen(wire), <<>>)
       ELSE loads_body(body.data, length, body.rest)

\* The reader of call_processing_server_async, the reader of the front-end.
read_reply(wire, eof) ==
    LET header == readexactly(wire, eof, 4)
        length == unpack_I(header.data)
        body == readexactly(header.rest, eof, length)
    IN IF header.blocked THEN Blocked
       ELSE IF ~header.ok THEN Raised("IncompleteReadError", ByteLen(wire), <<>>)
       ELSE IF length <= 0 \/ length > FrontendFrameLimit
       THEN Raised("ValueError", 4, header.rest)
       ELSE IF body.blocked THEN Blocked
       ELSE IF ~body.ok THEN Raised("IncompleteReadError", ByteLen(wire), <<>>)
       ELSE loads_body(body.data, length, body.rest)

\* ------------------------------------------------- one RPC connection
\* The objects the two programs frame, among them one whose body is exactly
\* the front-end's limit and one a byte longer.
XString(n) == StrValue(<<Run(Ch.x, n)>>)
Messages ==
    {<<>>,
     <<Pair(97, IntValue(1))>>,
     <<Pair(97, StrValue(<<>>))>>,
     <<Pair(97, StrValue(<<Run(Ch.enie, 1)>>))>>,
     <<Pair(97, IntValue(7)), Pair(98, StrValue(<<Run(Ch.enie, 1), Run(Ch.x, 2)>>))>>,
     <<Pair(97, XString(FrontendFrameLimit - 8))>>,
     <<Pair(97, XString(FrontendFrameLimit - 7))>>}

\* The header lengths another peer may send, and a body of that many bytes
\* for each: a JSON object where one fits.
PeerLengths ==
    {0, 1, 2, FrontendFrameLimit, FrontendFrameLimit + 1,
     ServerFrameLimit, ServerFrameLimit + 1}
PeerBody(L) ==
    IF L = 0 THEN <<>>
    ELSE IF L = 1 THEN <<Run(Ch.lbrace, 1)>>
    ELSE IF L < 8 THEN encode_utf8(dumps(<<>>))
    ELSE encode_utf8(dumps(<<Pair(97, XString(L - 8))>>))

\* One direction of a connection: "request" is written by the front-end or
\* by another client and read by the processing server, "reply" is written
\* by the processing server or by another server and read by the front-end.
Directions == {"request", "reply"}

AppState == <<now, tasks, hist, cache, calls, pc, sdata, running, rpc_calls,
              last_set, accepted, sock, job, srv, loop, raised, seo, bio>>

Open(dir) ==
    /\ chan = NoConnection
    /\ chan' = [chan EXCEPT !.dir = dir]
    /\ UNCHANGED AppState

\* The writing end may write another frame: the connection is open and the
\* unread bytes in flight are within the bound.
Writable ==
    /\ chan.dir # ""
    /\ ~chan.eof
    /\ Len(chan.queue) < MaxFrames
    /\ ByteLen(chan.wire) <= MaxInFlight

\* The program at the writing end frames the object m.
WriteFrame(m) ==
    LET frame == IF chan.dir = "request" THEN write_request(m) ELSE send_message(m)
    IN /\ Writable
       /\ chan' = [chan EXCEPT
               !.wire = @ \o frame,
               !.queue = Append(@, [by |-> "code", m |-> m,
                                    L |-> ByteLen(encode_utf8(dumps(m))),
                                    have |-> ByteLen(frame) - 4])]
       /\ UNCHANGED AppState

\* Another peer writes a header with length L and the body without its last
\* `missing` bytes, and closes the connection if the body is short.
PeerWrite(L, missing) ==
    /\ Writable
    /\ missing <= L
    /\ chan' = [chan EXCEPT
            !.wire = @ \o pack_I(L) \o TakeBytes(PeerBody(L), L - missing),
            !.eof = missing > 0,
            !.queue = Append(@, [by |-> "peer", m |-> <<>>, L |-> L,
                                 have |-> L - missing])]
    /\ UNCHANGED AppState

\* The writing end closes the connection.
Close ==
    /\ chan.dir # ""
    /\ ~chan.eof
    /\ chan' = [chan EXCEPT !.eof = TRUE]
    /\ UNCHANGED AppState

\* The reading end reads one frame, unless an earlier read raised.
ReadFrame(ret) ==
    /\ ~ret.blocked
    /\ Len(chan.reads) < Len(chan.queue)
    /\ \A i \in DOMAIN chan.reads : chan.reads[i].ok
    /\ chan' = [chan EXCEPT !.wire = ret.rest, !.reads = Append(@, ret)]
    /\ UNCHANGED AppState

RecvMessage == chan.dir = "request" /\ ReadFrame(recv_message(chan.wire, chan.eof))

ReadReply == chan.dir = "reply" /\ ReadFrame(read_reply(chan.wire, chan.eof))

CodecNext ==
    \/ \E dir \in Directions : Open(dir)
    \/ \E m \in Messages : WriteFrame(m)
    \/ \E L \in PeerLengths, missing \in {0, 1} : PeerWrite(L, missing)
    \/ Close
    \/ RecvMessage
    \/ ReadReply

CodecSpec == Init /\ [][CodecNext]_vars

\* ======================================================== task lifecycle
Terminal == {"completed", "failed"}

\* C1: every task record whose status is completed holds a result and no
\* error, whether the pipeline completed it or a cache hit in handle_scrape.
C1_CompletedHasResult ==
    \A t \in TaskIds :
        tasks[t].status = "completed" =>
            tasks[t].result # None /\ tasks[t].error = None

\* Both ways of completing have happened: task 1 by its pipeline, task 2 by
\* a cache hit.
C1_Witness ==
    /\ Len(tasks) >= 2
    /\ tasks[1].status = "completed" /\ pc[1] \in {"returned"}
    /\ tasks[2].status = "completed" /\ pc[2] = "none"

\* C2: every task record whose status is failed holds an error and no result.
C2_FailedHasError ==
    \A t \in TaskIds :
        tasks[t].status = "failed" =>
            tasks[t].result = None /\ tasks[t].error # None

\* A task failed on an exception whose message is empty.
C2_Witness ==
    \E t \in TaskIds : tasks[t].status = "failed" /\ tasks[t].error = Some("")


\* The state diagram: one step along pending, scraping, processing,
\* completed, or a step from a non-terminal status to failed.
DiagramSteps ==
    {<<"pending", "scraping">>, <<"scraping", "processing">>,
     <<"processing", "completed">>,
     <<"pending", "failed">>, <<"scraping", "failed">>, <<"processing", "failed">>}

StepsOf(t) == {<<hist[t][i], hist[t][i + 1]>> : i \in 1..(Len(hist[t]) - 1)}

\* C3 as claimed: for every task and every submission path, each status
\* change is a step of the state diagram.
C3_EveryChangeIsADiagramStep ==
    \A t \in TaskIds : StepsOf(t) \subseteq DiagramSteps

\* C3 as amended: a task with a background pipeline changes status only by
\* steps of the state diagram and starts at pending; a task served from the
\* cache has no pipeline and goes from pending straight to completed in
\* handle_scrape.
C3_DiagramStepsOrCacheHit ==
    \A t \in TaskIds :
        /\ hist[t][1] = "pending"
        /\ hist[t][Len(hist[t])] = tasks[t].status
        /\ IF pc[t] = "none"
           THEN hist[t] = <<"pending", "completed">>
           ELSE StepsOf(t) \subseteq DiagramSteps

\* One task went through the whole diagram and another was served from the
\* cache.
C3_Witness ==
    \E t, c \in TaskIds :
        /\ hist[t] = <<"pending", "scraping", "processing", "completed">>
        /\ pc[c] = "none" /\ hist[c] = <<"pending", "completed">>

\* C4: once a task is completed or failed, its status, result and error
\* never change again, whatever step any handler or pipeline takes.
C4_TerminalRecordsAreFrozen ==
    [][\A t \in TaskIds :
          tasks[t].status \in Terminal =>
              /\ t \in DOMAIN tasks'
              /\ tasks'[t].status = tasks[t].status
              /\ tasks'[t].result = tasks[t].result
              /\ tasks'[t].error = tasks[t].error]_vars

\* A task completed at an earlier instant, and the pipeline of a task
\* submitted after it is in flight.
C4_Witness ==
    \E t, r \in TaskIds :
        /\ t < r
        /\ tasks[t].status = "completed"
        /\ tasks[t].result[1].timestamp < now
        /\ pc[r] \in {"fetching", "rpc"}

\* C5: every task created by a submission eventually is completed or failed,
\* when the loop keeps running the pipelines and no pipeline is cancelled.
C5_EveryTaskTerminates ==
    \A t \in 1..MaxTasks :
        (t \in TaskIds) ~> (t \in TaskIds /\ tasks[t].status \in Terminal)

\* Two pipelines have run to their ends: one completed its task, the other
\* failed its task.
C5_Witness ==
    \E t, r \in TaskIds :
        /\ pc[t] \in {"returned"} /\ tasks[t].status = "completed"
        /\ pc[r] \in {"returned"} /\ tasks[r].status = "failed"

\* The ways the RPC call fails: it raises, or it returns something that is
\* not a success object.
RpcFailures ==
    {o \in RpcOutcomes :
        \/ o.kind = "raise"
        \/ ~o.reply.is_dict
        \/ dict_get(o.reply.obj, "status", "None") # "success"}

\* C6 as claimed: whenever the RPC call fails, the pipeline completes the
\* task with result.status partial, processing_data {} and processing_error
\* set, and never fails the task.
C6_RpcFailureGivesPartial ==
    [][\A t \in 1..MaxTasks, o \in RpcFailures :
          PipelineProcessed(t, o) =>
              /\ tasks'[t].status = "completed"
              /\ tasks'[t].result # None
              /\ tasks'[t].result[1].status = "partial"
              /\ tasks'[t].result[1].processing_data = EmptyDict
              /\ "processing_error" \in DOMAIN tasks'[t].result[1]]_vars

\* C7 as claimed: for every completed task, result.status is success or
\* partial, and it is partial exactly when the result has processing_error.
C7_PartialIffProcessingError ==
    \A t \in TaskIds :
        tasks[t].status = "completed" =>
            /\ tasks[t].result[1].status \in {"success", "partial"}
            /\ (tasks[t].result[1].status = "partial") <=>
                   ("processing_error" \in DOMAIN tasks[t].result[1])

\* A task failed by its fetch: it went from scraping to failed.
FetchFailed(t) == hist[t] = <<"pending", "scraping", "failed">>

\* C8: a fetch that times out fails the task with error "Timeout", a fetch
\* that raises anything else fails it with the exception's message; the task
\* gets no result and the processing server is never called for it.
C8_FetchFailureFailsTask ==
    [][/\ \A t \in 1..MaxTasks, o \in FetchOutcomes :
             (o.kind # "ok" /\ PipelineFetched(t, o)) =>
                 /\ tasks'[t].status = "failed"
                 /\ tasks'[t].error =
                        Some(IF o.kind = "timeout" THEN "Timeout" ELSE o.msg)
                 /\ FetchFailed(t)'
       /\ \A t \in TaskIds :
             FetchFailed(t) =>
                 /\ tasks'[t].result = None
                 /\ t \notin rpc_calls']_vars

\* One task failed by a fetch timeout and another by a fetch error.
C8_Witness ==
    \E t, r \in TaskIds :
        /\ FetchFailed(t) /\ tasks[t].error = Some("Timeout")
        /\ FetchFailed(r) /\ tasks[r].error = Some("404, message='Not Found'")
        /\ rpc_calls = {}

\* C9 as claimed: a pipeline cancelled while it runs leaves its task failed
\* with error "Cancelled", not in scraping or processing.
C9_CancelledTaskIsFailed ==
    \A t \in TaskIds :
        (pc[t] = "cancelled" /\ tasks[t].status # "pending") =>
            /\ tasks[t].status = "failed"
            /\ tasks[t].error = Some("Cancelled")

\* ============================================================ ResultCache
\* C10: get(u) returns the data of the latest set(u, r) while the time since
\* that set is at most the TTL; later it returns a miss and removes the
\* entry of u, so get(u) stays a miss until the next set(u, _); the entries
\* of the other urls are left as they are.
C10_CacheGetWithinTtl ==
    \A u \in Urls :
        LET ret == ResultCache_get(cache, u, now)
            latest == last_set[u]
        IN /\ ret[1] = IF latest # None /\ now - latest[1].at <= CacheTtl
                       THEN Some(latest[1].data) ELSE None
           /\ ret[1] = None => ret[2][u] = None
           /\ ret[1] # None => ret[2][u] = cache[u]
           /\ \A v \in Urls \ {u} : ret[2][v] = cache[v]

\* One entry was removed by a get after it expired, and another is read
\* exactly TTL seconds after its set.
C10_Witness ==
    \E u, v \in Urls :
        /\ last_set[u] # None /\ cache[u] = None
        /\ cache[v] # None /\ now - cache[v][1].timestamp = CacheTtl

\* =========================================================== handle_scrape
\* The request carries a url with a host and the rate limiter lets it in.
PassesChecks(req) ==
    /\ extract_url(req).ok
    /\ Truthy(hostname(extract_url(req).url))
    /\ allow(calls, hostname(extract_url(req).url)[1], now)[1]

\* The cache holds an entry for url that is not older than the TTL.
LiveEntry(url) ==
    cache[url] # None /\ now - cache[url][1].timestamp <= CacheTtl

\* What a submission leaves of the records and the pipelines that existed.
OthersUntouched ==
    /\ Len(tasks') = Len(tasks) + 1
    /\ \A t \in TaskIds : tasks'[t] = tasks[t] /\ pc'[t] = pc[t]

\* C11: a submission that passes validation and the rate limiter and whose
\* url has a live cache entry creates one new task, attaches the cached
\* result to it, marks it completed, answers 200 with task_id, status
\* completed and cached true, and schedules no pipeline for it.
C11_CacheHitCompletesInHandler ==
    [][\A req \in Requests :
          (PassesChecks(req) /\ LiveEntry(req.url[1]) /\ HandleScrape(req)) =>
              LET id == Len(tasks) + 1
                  url == req.url[1]
              IN /\ OthersUntouched
                 /\ tasks'[id] = [task_id |-> id, url |-> url,
                                  status |-> "completed", created_at |-> now,
                                  result |-> Some(cache[url][1].data),
                                  error |-> None]
                 /\ handle_scrape(req).response =
                        json_response([task_id |-> id, status |-> "completed",
                                       cached |-> TRUE], 200)
                 /\ cache' = cache
                 /\ running' = running
                 /\ pc'[id] = "none"]_vars

\* A task was completed from the entry its url still has in the cache, which
\* the pipeline of an earlier task stored; it is not among the running tasks.
C11_Witness ==
    \E t, c \in TaskIds :
        /\ t < c
        /\ pc[t] = "returned" /\ tasks[t].url = tasks[c].url
        /\ pc[c] = "none" /\ c \notin running
        /\ cache[tasks[c].url] # None
        /\ tasks[c].result = Some(cache[tasks[c].url][1].data)

\* C12: a submission that passes validation and the rate limiter and misses
\* the cache creates one new pending task, schedules exactly one pipeline
\* for it and answers 202 with status pending: the pipeline has not run
\* when the response is built.
C12_CacheMissSchedulesOnePipeline ==
    [][\A req \in Requests :
          (PassesChecks(req) /\ ~LiveEntry(req.url[1]) /\ HandleScrape(req)) =>
              LET id == Len(tasks) + 1
                  url == req.url[1]
              IN /\ OthersUntouched
                 /\ tasks'[id] = NewRecord(id, url)
                 /\ hist'[id] = <<"pending">>
                 /\ handle_scrape(req).response =
                        json_response([task_id |-> id, status |-> "pending"], 202)
                 /\ id \notin running
                 /\ running' = running \cup {id}
                 /\ Len(pc') = Len(pc) + 1
                 /\ pc'[id] = "scheduled"]_vars

\* A pipeline is scheduled and has not started for a task whose url had an
\* expired entry, which the lookup of the submission removed.
C12_Witness ==
    \E t \in TaskIds :
        /\ pc[t] = "scheduled" /\ t \in running
        /\ tasks[t].status = "pending"
        /\ last_set[tasks[t].url] # None
        /\ cache[tasks[t].url] = None

\* ====================================================== DomainRateLimiter
\* The number of accepted allow(d) calls with a timestamp in [w, w + 60].
AcceptedIn(d, w) ==
    Cardinality({i \in DOMAIN accepted[d] :
                    w <= accepted[d][i] /\ accepted[d][i] <= w + Period})

\* C13: for every domain and every window of 60 seconds, closed at both
\* ends, at most max of the allow calls that returned true have their
\* timestamp in the window, whatever the order of the calls and the domains.
C13_AtMostMaxPerWindow ==
    \A d \in Domains, w \in 0..MaxTime : AcceptedIn(d, w) <= RateLimit

\* More than max calls were accepted for a domain in all, a window holds
\* exactly max of them, and the other domain has accepted calls too.
C13_Witness ==
    \E d, e \in Domains :
        /\ d # e /\ accepted[e] # <<>>
        /\ Len(accepted[d]) > RateLimit
        /\ \E w \in 0..MaxTime : AcceptedIn(d, w) = RateLimit

\* The timestamps of a bucket that are not older than `age` seconds at t.
NotOlderThan(bucket, t, age) ==
    SelectSeq(bucket, LAMBDA ts : t - ts <= age)

\* The timestamps of a bucket that are less than `age` seconds old at t.
YoungerThan(bucket, t, age) ==
    SelectSeq(bucket, LAMBDA ts : t - ts < age)

\* allow as described, given the timestamps the purge keeps.
AllowKeeping(max, kept, buckets, domain, t) ==
    IF max <= 0 THEN <<TRUE, buckets>>
    ELSE IF Len(kept) >= max
         THEN <<FALSE, [buckets EXCEPT ![domain] = kept]>>
         ELSE <<TRUE, [buckets EXCEPT ![domain] = Append(kept, t)]>>

LimitsTried == {-1, 0, RateLimit}

\* C14 as claimed: allow purges every timestamp that is 60 s old or older
\* (one exactly 60 s old no longer counts), then rejects when max or more
\* remain, else appends now and accepts; with max <= 0 it accepts and
\* records nothing.
C14_AllowPurgesAtSixtySeconds ==
    \A d \in Domains, max \in LimitsTried :
        allow_max(max, calls, d, now) =
            AllowKeeping(max, YoungerThan(calls[d], now, Period), calls, d, now)

\* C14 as amended: allow purges every timestamp older than 60 s (one exactly
\* 60 s old is kept and still counts), then rejects when max or more remain
\* and appends nothing, else appends now and accepts; with max <= 0 it
\* accepts and records nothing.
C14_AllowPurgesOlderThanSixtySeconds ==
    \A d \in Domains, max \in LimitsTried :
        allow_max(max, calls, d, now) =
            AllowKeeping(max, NotOlderThan(calls[d], now, Period), calls, d, now)

\* A full bucket whose oldest timestamp is exactly 60 s old: allow rejects.
C14_Witness ==
    \E d \in Domains :
        /\ Len(calls[d]) = RateLimit
        /\ now - Head(calls[d]) = Period
        /\ ~allow(calls, d, now)[1]

\* C15: every bucket holds at most max timestamps in non-decreasing order,
\* and right after an accepted call all the timestamps of its bucket lie in
\* the 60 s before the call.
C15_BucketBoundedSortedRecent ==
    /\ [](\A d \in Domains :
             /\ Len(calls[d]) <= RateLimit
             /\ \A i, j \in DOMAIN calls[d] : i <= j => calls[d][i] <= calls[d][j])
    /\ [][\A d \in Domains :
             accepted'[d] # accepted[d] =>
                 \A i \in DOMAIN calls'[d] :
                     now - Period <= calls'[d][i] /\ calls'[d][i] <= now]_vars

\* An accepted call has just purged older timestamps and filled the bucket.
C15_Witness ==
    \E d \in Domains :
        /\ Len(calls[d]) = RateLimit
        /\ calls[d][Len(calls[d])] = now
        /\ Len(accepted[d]) >= 2 * RateLimit
        /\ Head(calls[d]) < now

\* The submissions answered 400: the body is not JSON, the url is missing or
\* empty, or the url has no host.
Rejected400 ==
    {req \in Requests :
        \/ ~req.json_ok
        \/ ~Truthy(req.url)
        \/ hostname(req.url[1]) = None}

RecentAdmissions(d) ==
    Cardinality({i \in DOMAIN accepted[d] : now - accepted[d][i] <= Period})

ValidRequests == Requests \ Rejected400

\* C17: a valid submission is admitted while fewer than N submissions for
\* its host were admitted in the last 60 s, and answered 429 otherwise; the
\* 429 creates no task, leaves the cache as it is and schedules nothing.
C17_FirstNAdmittedThen429 ==
    \A req \in ValidRequests :
        LET out == handle_scrape(req)
            d == hostname(req.url[1])[1]
        IN IF RecentAdmissions(d) < RateLimit
           THEN /\ out.response.status \in {200, 202}
                /\ out.created = Some(Len(tasks) + 1)
                /\ Len(out.tasks) = Len(tasks) + 1
           ELSE /\ out.response =
                       json_response(
                           [status |-> "error",
                            error |-> "Rate limit excedido para el dominio"], 429)
                /\ out.tasks = tasks
                /\ out.cache = cache
                /\ out.created = None
                /\ out.scheduled = None

\* N submissions for one host were admitted at different instants of the
\* last 60 s, so the next one gets 429, and the cache holds a live entry for
\* a url of that host, which an admitted submission would be served from.
C17_Witness ==
    \E u \in Urls :
        LET d == hostname(u)[1]
        IN /\ RecentAdmissions(d) = RateLimit
           /\ accepted[d][1] < accepted[d][Len(accepted[d])]
           /\ ~allow(calls, d, now)[1]
           /\ LiveEntry(u)

\* =========================================================== handle_result
\* The four answers of GET /result/{task_id}, with the error that the 500
\* answer carries given by ErrorShown.
ResultAnswers(ErrorShown(_)) ==
    \A id \in QueryIds :
        LET r == handle_result(id)
        IN /\ id \notin TaskIds =>
                  r = json_response(
                          [status |-> "error", error |-> "task_id inexistente"], 404)
           /\ id \in TaskIds =>
                  /\ tasks[id].status \in
                         {"pending", "scraping", "processing", "completed", "failed"}
                  /\ tasks[id].status = "failed" =>
                         r = json_response(
                                 [status |-> "error",
                                  error |-> ErrorShown(tasks[id].error[1])], 500)
                  /\ tasks[id].status \in {"pending", "scraping", "processing"} =>
                         r.status = 202 /\ r.body.status = "pending"
                  /\ tasks[id].status = "completed" =>
                         /\ r.status = 200
                         /\ r.body.task_id = id
                         /\ \A k \in DOMAIN tasks[id].result[1] :
                                r.body[k] = tasks[id].result[1][k]
                         /\ DOMAIN r.body = DOMAIN tasks[id].result[1] \cup {"task_id"}
           /\ r.status = 200 <=> (id \in TaskIds /\ tasks[id].status = "completed")

AsStored(error) == error

OrTareaFallida(error) == IF error = "" THEN "Tarea fallida" ELSE error

\* C18 as claimed: /result answers 404 for an unknown id, 500 with the
\* task's error for a failed task, 202 for a pending, scraping or processing
\* task, and 200 with the whole result plus task_id exactly for a completed
\* task; the four cases cover every reachable state and exclude each other.
C18_ResultAnswersWithTaskError == ResultAnswers(AsStored)

\* C18 as amended: the same four cases, where the 500 answer carries the
\* task's error when it is not empty and "Tarea fallida" when it is empty.
C18_ResultAnswersWithErrorOrDefault == ResultAnswers(OrTareaFallida)

\* One task failed with an empty error message and another is completed.
C18_Witness ==
    \E f, c \in TaskIds :
        /\ tasks[f].status = "failed" /\ tasks[f].error = Some("")
        /\ tasks[c].status = "completed"
        /\ handle_result(f).body.error = "Tarea fallida"
        /\ handle_result(c).status = 200

\* ============================================================ RPC framing
\* Read i of a connection took frame i: every earlier read returned an
\* object and so took a whole frame.
FramesRead == DOMAIN chan.reads

\* C19 as claimed: each of the two frame readers raises on a frame whose
\* length is 0 or greater than 100_000_000, having read the 4 bytes of the
\* header and nothing of a body, and raises when the connection closes
\* before the whole body has arrived.
C19_ReadersRejectBadLength ==
    \A i \in FramesRead :
        LET frame == chan.queue[i]
            ret == chan.reads[i]
        IN /\ (frame.L = 0 \/ frame.L > 100000000) =>
                  ~ret.ok /\ ret.err = "ValueError" /\ ret.consumed = 4
           /\ (frame.L >= 1 /\ frame.L <= 100000000 /\ frame.have < frame.L) =>
                  ~ret.ok /\ ret.err \in {"ConnectionError", "IncompleteReadError"}

RECURSIVE FrameBytes(_)
FrameBytes(frames) ==
    IF frames = <<>> THEN 0 ELSE 4 + Head(frames).have + FrameBytes(Tail(frames))

\* C20: an object whose encoded body has between 1 and 100_000_000 bytes,
\* framed by send_message or by the writer of the front-end, is decoded by
\* the reader at the other end to an equal object, and the reader takes
\* exactly 4 + L bytes: the frames behind it are left whole on the
\* connection.
C20_FrameRoundTrip ==
    /\ \A i \in FramesRead :
           LET frame == chan.queue[i]
               ret == chan.reads[i]
           IN (frame.by = "code" /\ frame.L >= 1 /\ frame.L <= 100000000) =>
                  /\ ret.ok
                  /\ ret.value = frame.m
                  /\ ret.consumed = 4 + frame.L
    /\ (\A i \in FramesRead : chan.reads[i].ok) =>
           ByteLen(chan.wire) =
               FrameBytes(SubSeq(chan.queue, Len(chan.reads) + 1, Len(chan.queue)))

\* The front-end has read two replies framed by send_message: one whose body
\* is exactly 100_000_000 bytes and one with a two-byte character.
C20_Witness ==
    /\ chan.dir = "reply"
    /\ Len(chan.reads) = 2
    /\ chan.queue[1].by = "code" /\ chan.queue[1].L = 100000000
    /\ chan.queue[2].by = "code"
    /\ chan.queue[2].L > ByteLen(dumps(chan.queue[2].m))
    /\ chan.reads[2].ok

\* ============================================ recv_all, one recv at a time
\* The loop of recv_all over a TCP stream.  The peer sends the bytes
\* 1, 2, 3, ... in order, in pieces of any size, and may close at any
\* moment; the kernel buffer buf holds what has arrived and is not read yet.
MaxStream == 4

Min(a, b) == IF a <= b THEN a ELSE b

RECURSIVE join(_)
\* b"".join(chunks)
join(chunks) ==
    IF chunks = <<>> THEN <<>> ELSE Head(chunks) \o join(Tail(chunks))

\* The peer writes one more byte of its stream.
PeerSend ==
    /\ ~sock.closed
    /\ sock.sent < MaxStream
    /\ sock' = [sock EXCEPT !.buf = Append(@, sock.sent + 1), !.sent = @ + 1]
    /\ UNCHANGED <<FrontEnd, job, srv, loop, raised, seo, bio>>

\* The peer closes its end.
PeerClose ==
    /\ ~sock.closed
    /\ sock' = [sock EXCEPT !.closed = TRUE]
    /\ UNCHANGED <<FrontEnd, job, srv, loop, raised, seo, bio>>

\* chunks = []; remaining = nbytes
RecvAllCall(nbytes) ==
    /\ sock.state = "idle"
    /\ sock' = [sock EXCEPT !.state = "loop", !.nbytes = nbytes,
                            !.remaining = nbytes, !.chunks = <<>>]
    /\ UNCHANGED <<FrontEnd, job, srv, loop, raised, seo, bio>>

\* Mutant: every recv asks for the whole nbytes.
recv_size_whole(nbytes, remaining) == nbytes

\* The argument of sock.recv.
recv_size(nbytes, remaining) == remaining

\* sock.recv(bufsize) blocks while nothing has arrived and the peer has not
\* closed; it then gives between 1 and bufsize of the bytes that arrived,
\* or b"" once the peer has closed and everything was read.
recv(buf, closed, bufsize) ==
    IF buf = <<>>
    THEN IF closed THEN {<<>>} ELSE {}
    ELSE {SubSeq(buf, 1, k) : k \in 1..Min(bufsize, Len(buf))}

\* One turn of `while remaining > 0`, or the return after the loop.
RecvAllStep ==
    /\ sock.state = "loop"
    /\ IF sock.remaining > 0
       THEN LET bufsize == recv_size(sock.nbytes, sock.remaining)
            IN \E chunk \in recv(sock.buf, sock.closed, bufsize) :
                 IF chunk = <<>>
                 THEN sock' = [sock EXCEPT !.state = "raised",
                                           !.asked = Append(@, bufsize)]
                 ELSE sock' = [sock EXCEPT
                                 !.buf = SubSeq(@, Len(chunk) + 1, Len(@)),
                                 !.chunks = Append(@, chunk),
                                 !.remaining = @ - Len(chunk),
                                 !.asked = Append(@, bufsize)]
       ELSE sock' = [sock EXCEPT !.state = "returned", !.ret = join(sock.chunks)]
    /\ UNCHANGED <<FrontEnd, job, srv, loop, raised, seo, bio>>

RecvNext ==
    \/ PeerSend
    \/ PeerClose
    \/ \E n \in 0..MaxStream : RecvAllCall(n)
    \/ RecvAllStep

\* The peer eventually sends or closes, and a recv that can return does.
RecvSpec == Init /\ [][RecvNext]_vars /\ WF_vars(PeerSend \/ PeerClose) /\ WF_vars(RecvAllStep)

\* ------------------------------------------------------------ C21
\* The first n bytes of the peer's stream.
StreamPrefix(n) == [i \in 1..n |-> i]

\* The bytes received before the i-th recv of the call.
ReceivedBefore(i) == Len(join(SubSeq(sock.chunks, 1, i - 1)))

RecvAllSafe ==
    /\ join(sock.chunks) = StreamPrefix(Len(join(sock.chunks)))
    /\ \A i \in 1..Len(sock.asked) :
         sock.asked[i] = sock.nbytes - ReceivedBefore(i)
    /\ sock.state = "returned" =>
         /\ sock.ret = StreamPrefix(sock.nbytes)
         /\ sock.ret = join(sock.chunks)
         /\ sock.sent >= sock.nbytes
    /\ sock.state = "raised" =>
         /\ sock.closed
         /\ sock.sent < sock.nbytes

\* C21: recv_all(sock, n) terminates however the stream delivers its bytes:
\* it returns exactly the first n bytes of the stream, the concatenation in
\* arrival order of the chunks received, each recv asking for no more than
\* the bytes still missing; a short read only continues the loop, and it
\* raises ConnectionError exactly when the peer closed before n bytes came.
C21_RecvAllTerminatesWithExactlyN ==
    /\ []RecvAllSafe
    /\ (sock.state = "loop") ~> (sock.state \in {"returned", "raised"})
    /\ (sock.state = "loop" /\ sock.closed /\ sock.sent < sock.nbytes)
          ~> (sock.state = "raised")

\* A call that needed three recv calls, two of them short reads, to return.
C21_Witness ==
    /\ sock.state = "returned"
    /\ Len(sock.chunks) = 3
    /\ sock.nbytes = MaxStream
    /\ Len(sock.chunks[1]) < sock.asked[1]

\* ============================================ server_processing.py
\* process_tasks.  A JSON value of the result is written as a tuple of
\* strings: <<"null">>, <<"[]">>, <<"{}">> for the three neutral values, and
\* <<analyzer, argument, ...>> for what an analyzer computed from its
\* arguments.  `tasks` is the set of keys whose flag is truthy, and
\* `raising` the set of analyzers that raise an Exception when called.
Analyzers == {"screenshot", "performance", "thumbnails", "tech_stack", "seo",
              "structured_data", "accessibility"}

Null == <<"null">>
EmptyList == <<"[]">>
EmptyObject == <<"{}">>

\* tasks.get(key)
tasks_get(flags, key) == key \in flags

\* bytes_to_base64(take_screenshot(url))
take_screenshot(url) == <<"screenshot", url>>
analyze_performance(url) == <<"performance", url>>
\* _encode_thumbnails(generate_thumbnails(image_urls))
generate_thumbnails(image_urls) == <<"thumbnails">> \o image_urls
detect_technologies(html) == <<"tech_stack", html>>
evaluate_seo(html, scraping_data) == <<"seo", html, scraping_data>>
extract_structured_data(html) == <<"structured_data", html>>
analyze_accessibility(html) == <<"accessibility", html>>

\* Mutant: an analyzer that raises throws away what the others computed.
try_analyzer_resets_all(out, key, cond, raises, value, default) ==
    IF ~cond THEN out
    ELSE IF raises
         THEN [k \in DOMAIN out |-> IF k = key THEN default ELSE Null]
         ELSE [out EXCEPT ![key] = value]

\* if cond: try: out[key] = value  except Exception: out[key] = default
try_analyzer(out, key, cond, raises, value, default) ==
    IF ~cond THEN out
    ELSE IF raises THEN [out EXCEPT ![key] = default]
         ELSE [out EXCEPT ![key] = value]

process_tasks(url, flags, image_urls, html, scraping_data, raising) ==
    LET out0 == [screenshot |-> Null, performance |-> Null,
                 thumbnails |-> EmptyList, tech_stack |-> EmptyList,
                 seo |-> EmptyObject, structured_data |-> EmptyList,
                 accessibility |-> EmptyObject]
        out1 == try_analyzer(out0, "screenshot", tasks_get(flags, "screenshot"),
                             "screenshot" \in raising, take_screenshot(url), Null)
        out2 == try_analyzer(out1, "performance", tasks_get(flags, "performance"),
                             "performance" \in raising, analyze_performance(url), Null)
        out3 == try_analyzer(out2, "thumbnails",
                             tasks_get(flags, "thumbnails") /\ image_urls # <<>>,
                             "thumbnails" \in raising,
                             generate_thumbnails(image_urls), EmptyList)
        out4 == try_analyzer(out3, "tech_stack",
                             tasks_get(flags, "tech_stack") /\ html # "",
                             "tech_stack" \in raising,
                             detect_technologies(html), EmptyList)
        out5 == try_analyzer(out4, "seo", tasks_get(flags, "seo") /\ html # "",
                             "seo" \in raising,
                             evaluate_seo(html, scraping_data), EmptyObject)
        out6 == try_analyzer(out5, "structured_data",
                             tasks_get(flags, "structured_data") /\ html # "",
                             "structured_data" \in raising,
                             extract_structured_data(html), EmptyList)
        out7 == try_analyzer(out6, "accessibility",
                             tasks_get(flags, "accessibility") /\ html # "",
                             "accessibility" \in raising,
                             analyze_accessibility(html), EmptyObject)
    IN out7

\* The arguments the front-end or any other client can put in a request.
ImageLists == {<<>>, <<"http://a/i.png">>}
HtmlTexts == {"", "<html>"}

\* process_tasks is called in a worker process, with any arguments and any
\* set of analyzers about to raise.
ProcessTasksCall ==
    /\ job.state = "idle"
    /\ \E flags \in SUBSET Analyzers, raising \in SUBSET Analyzers,
          image_urls \in ImageLists, html \in HtmlTexts :
          job' = [state |-> "running", url |-> "http://a/1", flags |-> flags,
                  image_urls |-> image_urls, html |-> html,
                  raising |-> raising, out |-> <<>>]
    /\ UNCHANGED <<FrontEnd, sock, srv, loop, raised, seo, bio>>

\* return out
ProcessTasksReturn ==
    /\ job.state = "running"
    /\ job' = [job EXCEPT !.state = "returned",
                          !.out = process_tasks(job.url, job.flags, job.image_urls,
                                                job.html, "title", job.raising)]
    /\ UNCHANGED <<FrontEnd, sock, srv, loop, raised, seo, bio>>

JobNext ==
    \/ ProcessTasksCall
    \/ ProcessTasksReturn

JobSpec == Init /\ [][JobNext]_vars

\* ------------------------------------------------------------ C23
\* The neutral default of each key.
NeutralDefault ==
    [screenshot |-> Null, performance |-> Null, thumbnails |-> EmptyList,
     tech_stack |-> EmptyList, seo |-> EmptyObject,
     structured_data |-> EmptyList, accessibility |-> EmptyObject]

\* What the same call returns when no analyzer raises.
WithoutFailures ==
    process_tasks(job.url, job.flags, job.image_urls, job.html, "title", {})

\* C23: process_tasks returns an object with exactly the seven keys; each
\* analyzer that raised leaves the neutral default in its key, every other
\* key holds the value it has when no analyzer raises, and a key whose flag
\* is false holds its neutral default.
C23_AnalyzerFailuresAreIsolated ==
    job.state = "returned" =>
        /\ DOMAIN job.out = Analyzers
        /\ \A k \in Analyzers :
             /\ k \in job.raising => job.out[k] = NeutralDefault[k]
             /\ k \notin job.raising => job.out[k] = WithoutFailures[k]
             /\ k \notin job.flags => job.out[k] = NeutralDefault[k]

\* All seven analyzers were asked for, two of them raised, the others gave
\* their values.
C23_Witness ==
    /\ job.state = "returned"
    /\ job.flags = Analyzers
    /\ job.raising = {"performance", "seo"}
    /\ job.out.screenshot = take_screenshot(job.url)
    /\ job.out.accessibility = analyze_accessibility(job.html)
    /\ job.out.seo = EmptyObject

\* ------------------------------------- ProcessingTCPServer and its handler
\* One thread per connection (ThreadingMixIn) runs ProcessingTCPHandler.handle;
\* the jobs run in the worker processes of a ProcessPoolExecutor.
MaxConns == 3

\* -n/--processes as parse_args gives it, and os.cpu_count().
ProcessArgs == {None, Some(-1), Some(0), Some(1), Some(2)}
CpuCounts == {None, Some(1), Some(2)}

max(a, b) == IF a >= b THEN a ELSE b

\* main: the pool size handed to ProcessingTCPServer.
main_processes(arg, cpu_count) ==
    IF arg = None \/ arg[1] <= 0
    THEN max(1, IF cpu_count = None \/ cpu_count[1] = 0 THEN 1 ELSE cpu_count[1])
    ELSE arg[1]

\* What recv_message gives the handler: an exception, or the decoded JSON
\* value, which is an object or not; of an object, its url and whether its
\* tasks member is an object.
Received(kind, url, tasks_is_dict) ==
    [kind |-> kind, url |-> url, tasks_is_dict |-> tasks_is_dict]
Receptions ==
    {Received("raise", None, FALSE), Received("other", None, FALSE),
     Received("dict", None, TRUE), Received("dict", Some(""), TRUE),
     Received("dict", Some("http://a/1"), TRUE),
     Received("dict", Some("http://a/1"), FALSE)}

ErrorFrame(msg) == [status |-> "error", error |-> msg, processing_data |-> ""]
SuccessFrame(result) == [status |-> "success", error |-> "", processing_data |-> result]

\* A connection: what its handler received, where the handler stands, the
\* future of its job, who ran the job, and the frames sent to the client.
NewConnection(req) ==
    [req |-> req, pc |-> "accepted", future |-> "none", exc |-> "", by |-> "",
     crashed |-> FALSE, sent |-> <<>>]

\* Mutant: the missing-url branch does not return and the job is submitted.
handle_request_no_return(req, broken) ==
    IF req.kind = "raise" THEN [reply |-> Some(ErrorFrame("ValueError")), submit |-> FALSE]
    ELSE IF req.kind # "dict"
    THEN [reply |-> Some(ErrorFrame("AttributeError")), submit |-> FALSE]
    ELSE IF ~Truthy(req.url)
    THEN [reply |-> Some(ErrorFrame("missing url")), submit |-> ~broken]
    ELSE IF broken
    THEN [reply |-> Some(ErrorFrame("BrokenProcessPool")), submit |-> FALSE]
    ELSE [reply |-> None, submit |-> TRUE]

\* handle, up to future.result(): the frame it sends, or the job it submits.
\* recv_message raising, payload.get on a value that is not an object, and
\* pool.submit on a broken pool all end in the except clause.
handle_request(req, broken) ==
    IF req.kind = "raise" THEN [reply |-> Some(ErrorFrame("ValueError")), submit |-> FALSE]
    ELSE IF req.kind # "dict"
    THEN [reply |-> Some(ErrorFrame("AttributeError")), submit |-> FALSE]
    ELSE IF ~Truthy(req.url)
    THEN [reply |-> Some(ErrorFrame("missing url")), submit |-> FALSE]
    ELSE IF broken
    THEN [reply |-> Some(ErrorFrame("BrokenProcessPool")), submit |-> FALSE]
    ELSE [reply |-> None, submit |-> TRUE]

\* handle, from future.result() on.
future_result(conn) ==
    IF conn.future = "result" THEN SuccessFrame("out")
    ELSE ErrorFrame(conn.exc)

\* Mutant: a worker is started for every queued job.
worker_free_always(busy, processes) == TRUE

\* The pool runs at most max_workers processes.
worker_free(busy, processes) == Cardinality(busy) < processes

\* main
Main(arg, cpu_count) ==
    /\ srv.state = "down"
    /\ srv' = [state |-> "up", processes |-> main_processes(arg, cpu_count),
               broken |-> FALSE, conns |-> <<>>, queue |-> <<>>, running |-> {}]
    /\ UNCHANGED <<FrontEnd, sock, job, loop, raised, seo, bio>>

\* A client connects and a handler thread is started; req is what the
\* handler's recv_message will give.
Accept(req) ==
    /\ srv.state = "up"
    /\ Len(srv.conns) < MaxConns
    /\ srv' = [srv EXCEPT !.conns = Append(@, NewConnection(req))]
    /\ UNCHANGED <<FrontEnd, sock, job, loop, raised, seo, bio>>

Handle(c) ==
    /\ srv.state = "up"
    /\ c \in DOMAIN srv.conns
    /\ srv.conns[c].pc = "accepted"
    /\ LET h == handle_request(srv.conns[c].req, srv.broken)
           sent == IF h.reply = None THEN <<>> ELSE <<h.reply[1]>>
       IN srv' = [srv EXCEPT
                    !.conns[c].sent = @ \o sent,
                    !.conns[c].pc = IF h.submit THEN "waiting" ELSE "done",
                    !.conns[c].future = IF h.submit THEN "pending" ELSE @,
                    !.queue = IF h.submit THEN Append(@, c) ELSE @]
    /\ UNCHANGED <<FrontEnd, sock, job, loop, raised, seo, bio>>

\* A worker process takes the oldest queued job.
WorkerTake ==
    /\ srv.state = "up"
    /\ srv.queue # <<>>
    /\ worker_free(srv.running, srv.processes)
    /\ LET c == Head(srv.queue)
       IN srv' = [srv EXCEPT !.queue = Tail(@), !.running = @ \cup {c},
                             !.conns[c].future = "running"]
    /\ UNCHANGED <<FrontEnd, sock, job, loop, raised, seo, bio>>

\* process_tasks returns in the worker, or raises at tasks.get when tasks
\* is not an object.
WorkerReturn(c) ==
    /\ srv.state = "up"
    /\ c \in srv.running
    /\ srv' = [srv EXCEPT
                 !.running = @ \ {c},
                 !.conns[c].by = "worker",
                 !.conns[c].future = IF srv.conns[c].req.tasks_is_dict
                                     THEN "result" ELSE "exception",
                 !.conns[c].exc = IF srv.conns[c].req.tasks_is_dict
                                  THEN "" ELSE "AttributeError"]
    /\ UNCHANGED <<FrontEnd, sock, job, loop, raised, seo, bio>>

\* The worker process running job c dies (killed, out of memory, a crash of
\* native code).  The executor marks itself broken, fails every future that
\* is not done with BrokenProcessPool and terminates its processes.
WorkerCrash(c) ==
    /\ srv.state = "up"
    /\ c \in srv.running
    /\ srv' = [srv EXCEPT
                 !.broken = TRUE,
                 !.queue = <<>>,
                 !.running = {},
                 !.conns = [i \in DOMAIN @ |->
                              IF @[i].future \in {"pending", "running"}
                              THEN [@[i] EXCEPT !.future = "exception",
                                                !.exc = "BrokenProcessPool",
                                                !.crashed = (i = c)]
                              ELSE @[i]]]
    /\ UNCHANGED <<FrontEnd, sock, job, loop, raised, seo, bio>>

\* future.result() returns or raises, and the handler sends its frame.
FutureResult(c) ==
    /\ srv.state = "up"
    /\ c \in DOMAIN srv.conns
    /\ srv.conns[c].pc = "waiting"
    /\ srv.conns[c].future \in {"result", "exception"}
    /\ srv' = [srv EXCEPT !.conns[c].sent = Append(@, future_result(srv.conns[c])),
                          !.conns[c].pc = "done"]
    /\ UNCHANGED <<FrontEnd, sock, job, loop, raised, seo, bio>>

ServerNext ==
    \/ \E arg \in ProcessArgs, cpu_count \in CpuCounts : Main(arg, cpu_count)
    \/ \E req \in Receptions : Accept(req)
    \/ \E c \in 1..MaxConns : Handle(c)
    \/ WorkerTake
    \/ \E c \in 1..MaxConns : WorkerReturn(c)
    \/ \E c \in 1..MaxConns : WorkerCrash(c)
    \/ \E c \in 1..MaxConns : FutureResult(c)

ServerSpec == Init /\ [][ServerNext]_vars

\* The handler threads and the workers keep running: a started handler
\* reaches its next statement, a queued job is taken when a worker is
\* free, and a running job ends.
ServerLiveSpec ==
    /\ ServerSpec
    /\ \A c \in 1..MaxConns :
         /\ WF_vars(Handle(c))
         /\ WF_vars(WorkerReturn(c) \/ WorkerCrash(c))
         /\ WF_vars(FutureResult(c))
    /\ WF_vars(WorkerTake)

\* ------------------------------------------------------------ C22
Connections == IF srv.state = "up" THEN DOMAIN srv.conns ELSE {}

UrlPresent(req) == req.kind = "dict" /\ Truthy(req.url)

OneResponse(k) ==
    /\ k.pc # "done" => k.sent = <<>>
    /\ k.pc = "done" =>
         /\ Len(k.sent) = 1
         /\ IF UrlPresent(k.req) /\ k.future = "result"
            THEN k.sent[1] = SuccessFrame("out")
            ELSE k.sent[1].status = "error" /\ k.sent[1].processing_data = ""
    /\ ~UrlPresent(k.req) => k.future = "none"

C24_CrashDoesNotPoisonPool ==
    \A c \in Connections :
        LET k == srv.conns[c]
        IN /\ k.crashed /\ k.pc = "done" => k.sent = <<ErrorFrame("BrokenProcessPool")>>
           /\ srv.broken /\ UrlPresent(k.req) /\ k.pc # "accepted" => k.future # "none"

\* ------------------------------------------------------------ C25
QueuedJobs == {srv.queue[i] : i \in DOMAIN srv.queue}

\* C25: at most `processes` jobs execute at the same time and the other
\* submitted jobs wait in the queue; a handler never computes a job's
\* outcome itself, it submits the job and stays blocked in future.result()
\* until the pool has produced the outcome; the pool size main uses is >= 1.
C25_AtMostPoolSizeJobsRun ==
    /\ \A arg \in ProcessArgs, cpu_count \in CpuCounts :
         main_processes(arg, cpu_count) >= 1
    /\ srv.state = "up" =>
         /\ srv.processes >= 1
         /\ Cardinality(srv.running) <= srv.processes
         /\ QueuedJobs \cap srv.running = {}
         /\ \A c \in Connections :
              LET k == srv.conns[c]
              IN /\ k.future = "pending" <=> c \in QueuedJobs
                 /\ k.future = "running" <=> c \in srv.running
                 /\ k.future \in {"pending", "running"} => k.pc = "waiting"
                 /\ k.future = "result" => k.by = "worker"
                 /\ k.by # "" => k.by = "worker"

\* A pool of two workers with both busy and a third job waiting.
C25_Witness ==
    /\ srv.state = "up"
    /\ srv.processes = 2
    /\ Cardinality(srv.running) = 2
    /\ Len(srv.queue) = 1
    /\ \A c \in Connections : srv.conns[c].pc = "waiting"

\* ======================================================== running_tasks
\* ------------------------------------------------------------ C26
Unfinished == {t \in TaskIds : pc[t] \in {"scheduled", "fetching", "rpc"}}
Ended == {t \in TaskIds : pc[t] \in {"returned", "cancelled"}}

\* C26 as claimed: in every reachable state running_tasks is exactly the set
\* of the pipelines that were scheduled and have not finished.
C26_RunningIsExactlyUnfinished == running = Unfinished

\* C26: in every reachable state running_tasks holds every scheduled
\* pipeline that has not finished and nothing but scheduled pipelines; a
\* pipeline enters the set in the step that schedules it and leaves it only
\* after it ended (completion, failure or cancellation), by its done
\* callback, so that an ended pipeline may still be in the set.
C26_RunningHoldsUnfinished ==
    /\ [](/\ Unfinished \subseteq running
          /\ running \subseteq Unfinished \cup Ended)
    /\ [][/\ \A t \in running' \ running :
               t \notin TaskIds /\ pc'[t] = "scheduled"
          /\ \A t \in running \ running' : t \in Ended]_vars

\* A cancelled pipeline is still in the set while another pipeline, which
\* returned, has been removed by its done callback.
C26_Witness ==
    \E t, r \in TaskIds :
        /\ pc[t] = "cancelled" /\ t \in running
        /\ pc[r] = "returned" /\ r \notin running

\* ==================================================== concurrent pipelines
\* ------------------------------------------------------------ C27
\* The pipeline of task t ends this step with set_result and cache.set.
Publishes(t) ==
    /\ pc[t] = "rpc"
    /\ pc'[t] = "returned"
    /\ tasks'[t].status = "completed"

\* The tasks whose pipeline completed for url.
CompletedPipelines(url) ==
    {t \in TaskIds : tasks[t].url = url /\ pc[t] = "returned"
                     /\ tasks[t].status = "completed"}

\* C27: submissions of the same URL that miss the cache each run their own
\* pipeline; a pipeline that completes stores the result built from its own
\* fetch in its own task and leaves every other task as it was, and writes
\* that result into the cache entry of the URL, replacing what a sibling
\* wrote: the entry is the result of the pipeline whose cache.set ran last.
C27_LastPipelineWinsCache ==
    /\ [](\A u \in Urls :
            cache[u] # None =>
              /\ last_set[u] # None
              /\ cache[u][1].timestamp = last_set[u][1].at
              /\ cache[u][1].data = last_set[u][1].data
              /\ \E t \in CompletedPipelines(u) : tasks[t].result = Some(cache[u][1].data))
    /\ [][/\ \A t \in TaskIds :
               Publishes(t) =>
                 /\ tasks'[t].result # None
                 /\ tasks'[t].result[1].scraping_data = sdata[t][1]
                 /\ tasks'[t].result[1].url = tasks[t].url
                 /\ \A r \in TaskIds \ {t} : tasks'[r] = tasks[r] /\ pc'[r] = pc[r]
                 /\ cache'[tasks[t].url] =
                        Some([timestamp |-> now, data |-> tasks'[t].result[1]])
          /\ \A u \in Urls :
               cache'[u] # cache[u] =>
                 \/ cache'[u] = None
                 \/ \E t \in TaskIds : Publishes(t) /\ tasks[t].url = u]_vars

\* Two pipelines of the same URL completed with different results, and the
\* cache holds the result of the first task, whose cache.set ran last.
C27_Witness ==
    /\ Len(tasks) = 2
    /\ tasks[1].url = tasks[2].url
    /\ CompletedPipelines(tasks[1].url) = {1, 2}
    /\ tasks[1].result # tasks[2].result
    /\ cache[tasks[1].url] # None
    /\ tasks[1].result = Some(cache[tasks[1].url][1].data)

\* ============================================ the three asyncio locks
\* The coroutines of the front-end as the event loop runs them: one at a
\* time, each from where it was resumed to its next suspension point.  A
\* coroutine is a sequence of instructions; the operations of the three
\* managers are `async with self._lock:` around a body without awaits.
MaxCoros == 2

Locks == {"TaskManager", "ResultCache", "DomainRateLimiter"}

Instr(op, lock) == [op |-> op, lock |-> lock]

\* Mutant: the body of the critical section awaits.
Locked_awaits_inside(lock) ==
    <<Instr("acquire", lock), Instr("await", ""), Instr("release", lock)>>

\* async with self._lock: <body without await>
Locked(lock) ==
    <<Instr("acquire", lock), Instr("body", lock), Instr("release", lock)>>

\* await of something outside the managers: the request body, the HTTP
\* fetch, the RPC.
Await == <<Instr("await", "")>>

\* The paths through the handlers and through process_scrape_task.
Programs ==
    {"scrape_400", "scrape_429", "scrape_hit", "scrape_miss", "get",
     "pipeline", "pipeline_fetch_failed", "pipeline_failed"}

Program(name) ==
    CASE name = "scrape_400" -> Await
      [] name = "scrape_429" -> Await \o Locked("DomainRateLimiter")
      [] name = "scrape_hit" ->
            Await \o Locked("DomainRateLimiter") \o Locked("TaskManager")
            \o Locked("ResultCache") \o Locked("TaskManager")
      [] name = "scrape_miss" ->
            Await \o Locked("DomainRateLimiter") \o Locked("TaskManager")
            \o Locked("ResultCache")
      [] name = "get" -> Locked("TaskManager")
      [] name = "pipeline" ->
            Locked("TaskManager") \o Await \o Locked("TaskManager") \o Await
            \o Locked("TaskManager") \o Locked("ResultCache")
      [] name = "pipeline_fetch_failed" ->
            Locked("TaskManager") \o Await \o Locked("TaskManager")
      [] name = "pipeline_failed" ->
            Locked("TaskManager") \o Await \o Locked("TaskManager") \o Await
            \o Locked("TaskManager")

NoHolder == 0

\* build_app: the three managers are created with their locks free.
LoopStart ==
    /\ loop.state = "idle"
    /\ loop' = [state |-> "up", cur |-> 0, co |-> <<>>,
                held |-> [l \in Locks |-> NoHolder]]
    /\ UNCHANGED <<FrontEnd, sock, job, srv, raised, seo, bio>>

\* A request arrives, or a pipeline is scheduled: a task is created for
\* the coroutine and is ready to run.
Spawn(name) ==
    /\ loop.state = "up"
    /\ Len(loop.co) < MaxCoros
    /\ loop' = [loop EXCEPT !.co = Append(@, [prog |-> name, ip |-> 1, st |-> "ready"])]
    /\ UNCHANGED <<FrontEnd, sock, job, srv, raised, seo, bio>>

\* Whether the loop can run coroutine c: it is new, what it awaited is
\* done, or the lock it waits for was released.
Resumable(c) ==
    LET k == loop.co[c]
    IN \/ k.st \in {"ready", "io"}
       \/ k.st = "lockwait" /\ loop.held[Program(k.prog)[k.ip].lock] = NoHolder

\* The loop, with no coroutine running, resumes one.
Resume(c) ==
    /\ loop.state = "up"
    /\ loop.cur = 0
    /\ c \in DOMAIN loop.co
    /\ Resumable(c)
    /\ loop' = [loop EXCEPT !.cur = c, !.co[c].st = "running"]
    /\ UNCHANGED <<FrontEnd, sock, job, srv, raised, seo, bio>>

\* The running coroutine executes its next instruction.  Lock.acquire takes
\* a free lock without yielding and suspends on a held one; an await and
\* the end of the coroutine give the control back to the loop.
Step ==
    /\ loop.state = "up"
    /\ loop.cur # 0
    /\ LET c == loop.cur
           k == loop.co[c]
           prog == Program(k.prog)
       IN IF k.ip > Len(prog)
          THEN loop' = [loop EXCEPT !.cur = 0, !.co[c].st = "done"]
          ELSE LET i == prog[k.ip]
               IN CASE i.op = "acquire" ->
                         IF loop.held[i.lock] = NoHolder
                         THEN loop' = [loop EXCEPT !.held[i.lock] = c,
                                                   !.co[c].ip = @ + 1]
                         ELSE loop' = [loop EXCEPT !.cur = 0,
                                                   !.co[c].st = "lockwait"]
                    [] i.op = "body" ->
                         loop' = [loop EXCEPT !.co[c].ip = @ + 1]
                    [] i.op = "release" ->
                         loop' = [loop EXCEPT !.held[i.lock] = NoHolder,
                                              !.co[c].ip = @ + 1]
                    [] i.op = "await" ->
                         loop' = [loop EXCEPT !.cur = 0, !.co[c].st = "io",
                                              !.co[c].ip = @ + 1]
    /\ UNCHANGED <<FrontEnd, sock, job, srv, raised, seo, bio>>

LockNext ==
    \/ LoopStart
    \/ \E name \in Programs : Spawn(name)
    \/ \E c \in 1..MaxCoros : Resume(c)
    \/ Step

LockSpec == Init /\ [][LockNext]_vars

\* ------------------------------------------------------------ C28
Coroutines == IF loop.state = "up" THEN DOMAIN loop.co ELSE {}

\* C28: no coroutine holds the lock of the Task Manager, of the Result Cache
\* or of the Rate Limiter across a suspension point: whenever a handler or
\* a pipeline is suspended and the loop chooses what to run, all three
\* locks are free; a lock is only ever held by the running coroutine, no
\* acquire ever has to wait, and no state is a deadlock: every coroutine
\* that has not ended can be resumed.
C28_LocksFreeAtEverySuspension ==
    loop.state = "up" =>
        /\ \A l \in Locks : loop.held[l] \in {NoHolder, loop.cur}
        /\ loop.cur = 0 => \A l \in Locks : loop.held[l] = NoHolder
        /\ \A c \in Coroutines :
             /\ loop.co[c].st # "lockwait"
             /\ loop.co[c].st = "io" => \A l \in Locks : loop.held[l] # c
             /\ loop.cur = 0 /\ loop.co[c].st # "done" => Resumable(c)

\* A pipeline is suspended in its RPC while a handler, resumed after reading
\* its request, is inside a critical section of the Task Manager.
C28_Witness ==
    /\ loop.state = "up"
    /\ \E c, e \in Coroutines :
         /\ loop.co[c].prog = "pipeline" /\ loop.co[c].st = "io" /\ loop.co[c].ip = 9
         /\ loop.co[e].prog = "scrape_hit"
         /\ loop.cur = e /\ loop.held["TaskManager"] = e

\* ============================================ the TaskManager alone
\* The methods of TaskManager as a caller sees them: the exception raised
\* ("" when the method returns) and _tasks afterwards.  set_status and
\* set_result begin with record = self._tasks[task_id], which raises
\* KeyError for an id that is not a key, before any assignment.
Outcome(exception, ts) == [raised |-> exception, tasks |-> ts]

\* Mutant: the record is looked up with setdefault, which creates it.
TaskManager_set_status_upsert(ts, task_id, status, error) ==
    IF task_id \notin DOMAIN ts
    THEN Outcome("", Append(ts, [NewRecord(task_id, "http://a/1")
                                   EXCEPT !.status = status, !.error = error]))
    ELSE Outcome("", set_status(ts, task_id, status, error))

TaskManager_set_status(ts, task_id, status, error) ==
    IF task_id \notin DOMAIN ts
    THEN Outcome("KeyError", ts)
    ELSE Outcome("", set_status(ts, task_id, status, error))

TaskManager_set_result(ts, task_id, result, status) ==
    IF task_id \notin DOMAIN ts
    THEN Outcome("KeyError", ts)
    ELSE Outcome("", set_result(ts, task_id, result, status))

\* Mutant: create_task stores the new record under the latest id.
create_task_overwrites(ts, url) ==
    IF ts = <<>> THEN Append(ts, NewRecord(1, url))
    ELSE [ts EXCEPT ![Len(ts)] = NewRecord(Len(ts), url)]

TaskManager_create_task(ts, url) == create_task(ts, url)

\* The arguments the calls are made with; ManagerIds holds ids that were
\* never issued: 0, and those create_task has not reached yet.
ManagerIds == 0..(MaxTasks + 1)
ManagerStatuses == {"scraping", "failed"}
ManagerErrors == {None, Some("Timeout")}
ManagerResults == {[status |-> "success"]}

CreateTaskOp(url) ==
    /\ Len(tasks) < MaxTasks
    /\ tasks' = TaskManager_create_task(tasks, url)
    /\ raised' = ""
    /\ UNCHANGED <<now, hist, cache, calls, pc, sdata, running, rpc_calls, last_set, accepted, chan, sock, job, srv, loop, seo, bio>>

GetOp(task_id) ==
    /\ raised' = ""
    /\ UNCHANGED <<now, tasks, hist, cache, calls, pc, sdata, running, rpc_calls, last_set, accepted, chan, sock, job, srv, loop, seo, bio>>

SetStatusOp(task_id, status, error) ==
    LET out == TaskManager_set_status(tasks, task_id, status, error)
    IN /\ tasks' = out.tasks
       /\ raised' = out.raised
       /\ UNCHANGED <<now, hist, cache, calls, pc, sdata, running, rpc_calls, last_set, accepted, chan, sock, job, srv, loop, seo, bio>>

SetResultOp(task_id, result, status) ==
    LET out == TaskManager_set_result(tasks, task_id, result, status)
    IN /\ tasks' = out.tasks
       /\ raised' = out.raised
       /\ UNCHANGED <<now, hist, cache, calls, pc, sdata, running, rpc_calls, last_set, accepted, chan, sock, job, srv, loop, seo, bio>>

ManagerNext ==
    \/ Tick
    \/ \E u \in Urls : CreateTaskOp(u)
    \/ \E id \in ManagerIds : GetOp(id)
    \/ \E id \in ManagerIds, s \in ManagerStatuses, e \in ManagerErrors :
         SetStatusOp(id, s, e)
    \/ \E id \in ManagerIds, r \in ManagerResults : SetResultOp(id, r, "completed")

ManagerSpec == Init /\ [][ManagerNext]_vars

\* ------------------------------------------------------------ C29
NeverIssued == ManagerIds \ TaskIds

\* C29: set_status and set_result called with a task id that was never
\* issued raise KeyError, the not-found error, and leave every task record
\* as it was: no record is changed and none is created for the unknown id.
C29_UnknownIdRaisesAndChangesNothing ==
    /\ [](\A id \in NeverIssued :
            /\ \A s \in ManagerStatuses, e \in ManagerErrors :
                 TaskManager_set_status(tasks, id, s, e) = Outcome("KeyError", tasks)
            /\ \A r \in ManagerResults :
                 TaskManager_set_result(tasks, id, r, "completed") = Outcome("KeyError", tasks))
    /\ [][/\ raised' = "KeyError" => tasks' = tasks
          /\ \A id \in NeverIssued :
               /\ \A s \in ManagerStatuses, e \in ManagerErrors :
                    SetStatusOp(id, s, e) => raised' = "KeyError" /\ tasks' = tasks
               /\ \A r \in ManagerResults :
                    SetResultOp(id, r, "completed") => raised' = "KeyError" /\ tasks' = tasks]_vars

\* A call on an unknown id has just raised, with a record in the table
\* that an earlier call on its own id had changed.
C29_Witness ==
    /\ raised = "KeyError"
    /\ Len(tasks) = 1
    /\ tasks[1].status = "failed"
    /\ tasks[1].error = Some("Timeout")

\* ------------------------------------------------------------ C30
\* C30: create_task returns a record with a fresh id, status pending and
\* neither result nor error; an issued id keeps its record for good: no
\* call removes the record or replaces it, and none changes its task_id,
\* its url or its created_at.
C30_IssuedRecordsKeepIdentity ==
    /\ [](\A t \in TaskIds : tasks[t].task_id = t)
    /\ [][/\ \A t \in TaskIds :
               /\ t \in DOMAIN tasks'
               /\ tasks'[t].task_id = tasks[t].task_id
               /\ tasks'[t].url = tasks[t].url
               /\ tasks'[t].created_at = tasks[t].created_at
          /\ \A t \in DOMAIN tasks' \ TaskIds :
               tasks'[t] = [task_id |-> t, url |-> tasks'[t].url,
                            status |-> "pending", created_at |-> now,
                            result |-> None, error |-> None]
          /\ \A u \in Urls :
               CreateTaskOp(u) =>
                 /\ DOMAIN tasks' = TaskIds \cup {Len(tasks) + 1}
                 /\ tasks'[Len(tasks) + 1].url = u]_vars

\* Two records issued at different times; the first went through failed to
\* completed, the second is as create_task returned it.
C30_Witness ==
    /\ Len(tasks) = 2
    /\ tasks[1].created_at = 0
    /\ tasks[1].status = "completed"
    /\ tasks[1].result # None
    /\ tasks[2].created_at = TickSeconds
    /\ tasks[2] = [NewRecord(2, "http://b/1") EXCEPT !.created_at = TickSeconds]
    /\ now = 2 * TickSeconds

\* ============================================ processor/advanced.py
\* evaluate_seo.  A document is what BeautifulSoup finds in the HTML: the
\* length of the text of <title> and of the content of the description
\* meta (0 when the element is absent or empty), the number of <h1>, and
\* whether there is a canonical link, a robots meta and a meta whose
\* property contains "og:".  A string is written as its length.
TitleLengths == {0, 9, 10, 21, 70, 71}
DescriptionLengths == {0, 49, 50, 60, 160, 161}
Documents ==
    [title : TitleLengths, description : DescriptionLengths, h1 : 0..2,
     canonical : BOOLEAN, robots : BOOLEAN, og : BOOLEAN]

\* What process_scrape_task puts in scraping_data for a document: the title
\* parse_basic_structure found, and in meta_tags the description that
\* extract_meta_tags stores only when it is not empty.
scraping_data_for(doc) ==
    Some([title |-> doc.title, description |-> doc.description])

\* min(score, 100)
capped(score) == IF score <= 100 THEN score ELSE 100

\* evaluate_seo(html, scraping_data): the title is taken from scraping_data,
\* or from the document when scraping_data has none; the description is
\* taken from scraping_data["meta_tags"] alone.
advanced_evaluate_seo(doc, scraping_data) ==
    LET title == IF scraping_data # None /\ scraping_data[1].title > 0
                 THEN scraping_data[1].title ELSE doc.title
        description == IF scraping_data # None
                       THEN scraping_data[1].description ELSE 0
        score == (IF title > 0 THEN 15 ELSE 0)
                 + (IF 10 <= title /\ title <= 70 THEN 20 ELSE 0)
                 + (IF description > 0 THEN 15 ELSE 0)
                 + (IF 50 <= description /\ description <= 160 THEN 15 ELSE 0)
                 + (IF doc.h1 = 1 THEN 10 ELSE 0)
                 + (IF doc.canonical THEN 10 ELSE 0)
                 + (IF doc.robots THEN 5 ELSE 0)
                 + (IF doc.og THEN 10 ELSE 0)
    IN [title_length |-> title, meta_description_length |-> description,
        h1_count |-> doc.h1, has_canonical |-> doc.canonical,
        has_robots |-> doc.robots, has_open_graph |-> doc.og,
        score |-> capped(score)]

\* evaluate_seo is called by process_tasks with the pipeline's
\* scraping_data, or with the HTML alone (scraping_data = None).
EvaluateSeoCall ==
    /\ seo.state = "idle"
    /\ \E doc \in Documents, alone \in BOOLEAN :
         seo' = [state |-> "called", doc |-> doc, alone |-> alone,
                 scraping_data |-> IF alone THEN None ELSE scraping_data_for(doc),
                 out |-> <<>>]
    /\ UNCHANGED <<FrontEnd, sock, job, srv, loop, raised, bio>>

EvaluateSeoReturn ==
    /\ seo.state = "called"
    /\ seo' = [seo EXCEPT !.state = "returned",
                          !.out = <<advanced_evaluate_seo(seo.doc, seo.scraping_data)>>]
    /\ UNCHANGED <<FrontEnd, sock, job, srv, loop, raised, bio>>

SeoNext ==
    \/ EvaluateSeoCall
    \/ EvaluateSeoReturn

SeoSpec == Init /\ [][SeoNext]_vars

\* ------------------------------------------------------------ C31
\* The sum of the eight rules over the document's own title and description.
RuleSum(doc) ==
    (IF doc.title > 0 THEN 15 ELSE 0)
    + (IF doc.title \in 10..70 THEN 20 ELSE 0)
    + (IF doc.description > 0 THEN 15 ELSE 0)
    + (IF doc.description \in 50..160 THEN 15 ELSE 0)
    + (IF doc.h1 = 1 THEN 10 ELSE 0)
    + (IF doc.canonical THEN 10 ELSE 0)
    + (IF doc.robots THEN 5 ELSE 0)
    + (IF doc.og THEN 10 ELSE 0)

\* The scenario document: a 21-character title, a 60-character description,
\* one h1, a canonical link, og:title, no robots meta.
ScenarioDocument ==
    [title |-> 21, description |-> 60, h1 |-> 1, canonical |-> TRUE,
     robots |-> FALSE, og |-> TRUE]

SeoScoreAsClaimed ==
    seo.state = "returned" =>
        /\ seo.out[1].score = IF RuleSum(seo.doc) <= 100 THEN RuleSum(seo.doc) ELSE 100
        /\ seo.out[1].score \in 0..100
        /\ seo.doc = ScenarioDocument =>
             seo.out[1].score = 95 /\ seo.out[1].h1_count = 1

\* C31: the score evaluate_seo gives for a document is the sum of the eight
\* rules over the document, capped at 100, hence in 0..100; for the
\* scenario document it is 95 with h1_count 1, also when evaluate_seo is
\* called with the HTML alone.
C31_SeoScoreIsRuleSum == SeoScoreAsClaimed


\* What holds: the claimed score, for the calls that carry the pipeline's
\* scraping_data; and the range 0..100 for every call.
SeoScoreWithScrapingData ==
    /\ seo.state = "returned" => seo.out[1].score \in 0..100
    /\ seo.state = "returned" /\ ~seo.alone => SeoScoreAsClaimed


\* ------------------------------------------------------------ C32
\* The host's bucket after an admission: the purged bucket and now.
Admission(d) == Append(Purge(calls[d], now), now)

\* C32: handle_scrape consults the rate limiter before the cache.  Every
\* valid submission that is answered 200 or 202, the one served from the
\* cache included, appends one timestamp to its host's bucket; and while
\* the host's bucket is full a submission is answered 429, with no task
\* created and the cache not read, even when its url has a live entry.
C32_LimiterBeforeCache ==
    \A req \in ValidRequests :
        LET out == handle_scrape(req)
            url == req.url[1]
            d == hostname(url)[1]
        IN /\ out.response.status \in {200, 202, 429}
           /\ out.response.status \in {200, 202} =>
                /\ out.calls[d] = Admission(d)
                /\ Len(Purge(calls[d], now)) < RateLimit
           /\ out.response.status = 200 =>
                /\ LiveEntry(url)
                /\ out.response.body.cached
           /\ Len(Purge(calls[d], now)) >= RateLimit =>
                /\ out.response.status = 429
                /\ out.created = None
                /\ out.cache = cache
                /\ out.calls[d] = Purge(calls[d], now)

\* A task was served from the cache and its admission is in the bucket of
\* its host, which is now full; the entry is still live, and the next
\* submission for that url gets 429.
C32_Witness ==
    \E t \in TaskIds :
        LET url == tasks[t].url
            d == hostname(url)[1]
        IN /\ pc[t] = "none"
           /\ LiveEntry(url)
           /\ tasks[t].created_at \in {calls[d][i] : i \in DOMAIN calls[d]}
           /\ Len(Purge(calls[d], now)) >= RateLimit
           /\ handle_scrape([json_ok |-> TRUE, url |-> Some(url)]).response.status = 429


\* ------------------------------------------------------------ C33
\* In this step pipeline t called set_result and cache.set(url, result).
WrittenBy(t, url) ==
    /\ tasks[t].url = url
    /\ pc[t] = "rpc" /\ pc'[t] = "returned"
    /\ tasks[t].status = "processing" /\ tasks'[t].status = "completed"
    /\ tasks'[t].result = Some(cache'[url][1].data)
    /\ cache'[url][1].timestamp = now
    /\ cache'[url][1].data.status \in {"success", "partial"}

\* In this step the handler completed a new task from the cache.
CacheHitStep ==
    /\ Len(tasks') = Len(tasks) + 1
    /\ pc'[Len(tasks')] = "none"

\* C33: the cache is written only by a pipeline, in the step of its
\* set_result, with the same result (success or partial) under the
\* submitted url.  A task that ends failed does not write the cache, and a
\* cache hit neither rewrites the entry nor refreshes its insertion time:
\* every stored entry is the latest cache.set of its url, and it is served
\* until TTL seconds after that set and no longer.
C33_OnlyPipelinesWriteTheCache ==
    /\ [](\A u \in Urls :
            /\ cache[u] # None =>
                 /\ last_set[u] # None
                 /\ cache[u][1] = [timestamp |-> last_set[u][1].at,
                                   data |-> last_set[u][1].data]
            /\ ResultCache_get(cache, u, now)[1] # None <=>
                 cache[u] # None /\ now - last_set[u][1].at <= CacheTtl)
    /\ [][/\ \A u \in Urls :
               cache'[u] # cache[u] =>
                   \/ cache'[u] = None /\ ~LiveEntry(u)
                   \/ \E t \in TaskIds : WrittenBy(t, u)
          /\ \A t \in TaskIds :
               tasks[t].status # "failed" /\ tasks'[t].status = "failed" =>
                   cache' = cache
          /\ CacheHitStep => cache' = cache]_vars

\* A task was served from the cache at the last instant of the entry's
\* life; the entry kept the insertion time of the pipeline that wrote it and
\* has expired since, although it is still stored.
C33_Witness ==
    \E t \in TaskIds :
        LET u == tasks[t].url
        IN /\ pc[t] = "none"
           /\ cache[u] # None
           /\ tasks[t].created_at > cache[u][1].timestamp
           /\ tasks[t].result = Some(cache[u][1].data)
           /\ now - cache[u][1].timestamp > CacheTtl
           /\ ResultCache_get(cache, u, now)[1] = None


\* ------------------------------------------------------------ C34
\* A body without its task_id key.
WithoutTaskId(body) == [k \in DOMAIN body \ {"task_id"} |-> body[k]]

\* C34: GET /result modifies no stored state.  No result document held by
\* a task record or by the cache has a task_id key, and a /result call
\* leaves the records and the cache as they were; a 200 body is the stored
\* result plus task_id, and that task_id is the id of the request path,
\* also for a task that was served from the cache.
C34_ResultReadsOnly ==
    /\ [](/\ \A t \in TaskIds :
               tasks[t].result # None => "task_id" \notin DOMAIN tasks[t].result[1]
          /\ \A u \in Urls :
               cache[u] # None => "task_id" \notin DOMAIN cache[u][1].data
          /\ \A id \in TaskIds \cup {Len(tasks) + 1} :
               handle_result(id).status = 200 =>
                   /\ id \in TaskIds
                   /\ handle_result(id).body.task_id = id
                   /\ WithoutTaskId(handle_result(id).body) = tasks[id].result[1])
    /\ [][\A id \in TaskIds \cup {Len(tasks) + 1} :
              HandleResult(id) => tasks' = tasks /\ cache' = cache]_vars

\* One task was completed by its pipeline and another was served from the
\* cache with the same result document; /result answers 200 for both, with
\* the same document and each with its own id.
C34_Witness ==
    \E p, c \in TaskIds :
        /\ p # c
        /\ pc[p] = "returned" /\ pc[c] = "none"
        /\ tasks[c].result = tasks[p].result
        /\ handle_result(p).status = 200 /\ handle_result(c).status = 200
        /\ handle_result(p).body.task_id = p
        /\ handle_result(c).body.task_id = c
        /\ WithoutTaskId(handle_result(c).body) = WithoutTaskId(handle_result(p).body)


\* ============================================ TP1/sistema_biometrico.py
\* The biometric system: proceso_principal sends every sample to three
\* analyzer processes over three pipes, the analyzers put their results on
\* one shared queue, and the verifier takes three results per block, chains
\* the blocks and rewrites blockchain.json after each one.  The processes
\* run asynchronously: time.sleep(1) in the main loop orders nothing.
TOTAL_MUESTRAS == 3     \* ConfiguracionGlobal.TOTAL_MUESTRAS of this run
VENTANA_MOVIL == 2      \* ConfiguracionGlobal.VENTANA_MOVIL of this run

Tipos == {"frecuencia", "presion", "oxigeno"}
Procesos == Tipos \cup {"verificador"}

\* generar_datos_biometricos: frecuencia in 60..180, presion = [110..180,
\* 70..110], oxigeno in 90..100.  The runs take the samples at the two ends
\* of the ranges.
Generados ==
    {[frecuencia |-> 60, presion |-> <<110, 70>>, oxigeno |-> 90],
     [frecuencia |-> 180, presion |-> <<180, 110>>, oxigeno |-> 100]}

\* The sample of the n-th iteration: the timestamp has a resolution of one
\* second and the loop sleeps one second per sample, so it is n.
generar_datos_biometricos(n, g) ==
    [timestamp |-> n, frecuencia |-> g.frecuencia, presion |-> g.presion,
     oxigeno |-> g.oxigeno]

\* The value an analyzer reads from a sample: datos["frecuencia"],
\* datos["presion"][0], datos["oxigeno"].
lectura(tipo, datos) ==
    IF tipo = "presion" THEN datos.presion[1] ELSE datos[tipo]

\* deque(maxlen=VENTANA_MOVIL).append
ventana_append(ventana, x) ==
    IF Len(ventana) < VENTANA_MOVIL THEN Append(ventana, x)
    ELSE Append(Tail(ventana), x)

RECURSIVE Suma(_)
Suma(s) == IF s = <<>> THEN 0 ELSE Head(s) + Suma(Tail(s))

RECURSIVE Factorial(_)
Factorial(n) == IF n <= 1 THEN 1 ELSE n * Factorial(n - 1)

\* Means are written in units of 1/Escala, which makes the mean of at most
\* VENTANA_MOVIL integers an integer.
Escala == Factorial(VENTANA_MOVIL)

\* np.mean(list(ventana))
media_de(ventana) == (Suma(ventana) * Escala) \div Len(ventana)

\* calcular_desviacion_estandar: 0.0 for fewer than two values, else np.std,
\* written as the variance it is the square root of, in units of 1/Escala^2.
calcular_desviacion_estandar(valores) ==
    IF Len(valores) < 2 THEN 0
    ELSE (Suma([i \in DOMAIN valores |-> valores[i] * valores[i]]) * Escala * Escala)
             \div Len(valores)
         - media_de(valores) * media_de(valores)

\* The result an analyzer puts on the queue for a sample.
resultado_de(tipo, datos, ventana) ==
    [tipo |-> tipo, timestamp |-> datos.timestamp,
     media |-> media_de(ventana),
     desv |-> calcular_desviacion_estandar(ventana)]

\* hashlib.sha256 of the string prev_hash + json.dumps(datos) + timestamp.
\* The three parts can be read back from the string (64 hex digits, a JSON
\* object, a timestamp), and different strings have different digests.
sha256(prev_hash, datos_bloque, timestamp) ==
    [sha256 |-> <<prev_hash, datos_bloque, timestamp>>]

\* "0" * 64
HashInicial == [sha256 |-> <<>>]

\* The verifier's dict resultados after the gets of one block: the last
\* result taken of each tipo.
resultados_de(tomados) ==
    [t \in {tomados[i].tipo : i \in DOMAIN tomados} |->
        tomados[CHOOSE i \in DOMAIN tomados :
                    /\ tomados[i].tipo = t
                    /\ \A j \in DOMAIN tomados : tomados[j].tipo = t => j <= i]]

\* The key whose lookup raises KeyError first (lines 142, 146-149), or "".
clave_ausente(resultados) ==
    IF "frecuencia" \notin DOMAIN resultados THEN "frecuencia"
    ELSE IF "oxigeno" \notin DOMAIN resultados THEN "oxigeno"
    ELSE IF "presion" \notin DOMAIN resultados THEN "presion"
    ELSE ""

\* Mutant: an oxygen mean of exactly 90 or 100 raises the alert too.
alerta_de_inclusive(resultados) ==
    \/ resultados["frecuencia"].media >= 200 * Escala
    \/ resultados["oxigeno"].media <= 90 * Escala
    \/ resultados["oxigeno"].media >= 100 * Escala
    \/ resultados["presion"].media >= 200 * Escala

\* alerta of a block, lines 145-150.
alerta_de(resultados) ==
    \/ resultados["frecuencia"].media >= 200 * Escala
    \/ resultados["oxigeno"].media < 90 * Escala
    \/ resultados["oxigeno"].media > 100 * Escala
    \/ resultados["presion"].media >= 200 * Escala

datos_bloque_de(resultados) ==
    [t \in Tipos |-> [media |-> resultados[t].media, desv |-> resultados[t].desv]]

\* The block the verifier builds from resultados on top of prev_hash.
bloque_de(resultados, prev_hash) ==
    LET timestamp == resultados["frecuencia"].timestamp
        datos_bloque == datos_bloque_de(resultados)
    IN [timestamp |-> timestamp, datos |-> datos_bloque,
        alerta |-> alerta_de(resultados), prev_hash |-> prev_hash,
        hash |-> sha256(prev_hash, datos_bloque, timestamp)]

\* proceso_principal up to the start of the four processes: three empty
\* pipes, an empty queue, and blockchain.json holding [].
SystemStarted ==
    [state |-> "up", principal |-> "loop", muestras |-> <<>>,
     pipe |-> [t \in Tipos |-> <<>>],
     ventana |-> [t \in Tipos |-> <<>>],
     recibidas |-> [t \in Tipos |-> 0],
     vivo |-> [p \in Procesos |-> "alive"],
     queue |-> <<>>, tomados |-> <<>>,
     blockchain |-> <<>>, bloque_anterior_hash |-> HashInicial,
     fichero |-> <<>>, error |-> ""]

BioRest == <<FrontEnd, sock, job, srv, loop, raised, seo>>

proceso_principal_start ==
    /\ bio.state = "down"
    /\ bio' = SystemStarted
    /\ UNCHANGED BioRest

\* One iteration of the main loop: a sample is generated and sent on the
\* three pipes.
proceso_principal_send ==
    /\ bio.state = "up" /\ bio.principal = "loop"
    /\ Len(bio.muestras) < TOTAL_MUESTRAS
    /\ \E g \in Generados :
         LET datos == generar_datos_biometricos(Len(bio.muestras) + 1, g)
         IN bio' = [bio EXCEPT !.muestras = Append(@, datos),
                               !.pipe = [t \in Tipos |-> Append(@[t], datos)]]
    /\ UNCHANGED BioRest

\* finally: the parent ends of the pipes are closed and the joins begin.
proceso_principal_close ==
    /\ bio.state = "up" /\ bio.principal = "loop"
    /\ Len(bio.muestras) = TOTAL_MUESTRAS
    /\ bio' = [bio EXCEPT !.principal = "joining"]
    /\ UNCHANGED BioRest

\* A join timed out and the process, still alive, is terminated.
proceso_principal_terminate(p) ==
    /\ bio.state = "up" /\ bio.principal = "joining"
    /\ bio.vivo[p] = "alive"
    /\ bio' = [bio EXCEPT !.vivo[p] = "terminated"]
    /\ UNCHANGED BioRest

\* One iteration of an analyzer: recv, the window, mean and deviation, put.
\* After TOTAL_MUESTRAS iterations the process ends.
proceso_analizador(tipo) ==
    /\ bio.state = "up" /\ bio.vivo[tipo] = "alive"
    /\ bio.recibidas[tipo] < TOTAL_MUESTRAS
    /\ bio.pipe[tipo] # <<>>
    /\ LET datos == Head(bio.pipe[tipo])
           ventana == ventana_append(bio.ventana[tipo], lectura(tipo, datos))
       IN bio' = [bio EXCEPT
                    !.pipe[tipo] = Tail(@),
                    !.ventana[tipo] = ventana,
                    !.recibidas[tipo] = @ + 1,
                    !.queue = Append(@, resultado_de(tipo, datos, ventana)),
                    !.vivo[tipo] = IF bio.recibidas[tipo] + 1 = TOTAL_MUESTRAS
                                   THEN "exited" ELSE "alive"]
    /\ UNCHANGED BioRest

\* resultado_queue.get() in the inner loop of the verifier.
proceso_verificador_get ==
    /\ bio.state = "up" /\ bio.vivo["verificador"] = "alive"
    /\ Len(bio.tomados) < 3
    /\ bio.queue # <<>>
    /\ bio' = [bio EXCEPT !.queue = Tail(@),
                          !.tomados = Append(@, Head(bio.queue))]
    /\ UNCHANGED BioRest

\* Mutant: the block is chained to the initial hash instead of the hash of
\* the block before it.
proceso_verificador_bloque_unchained ==
    /\ bio.state = "up" /\ bio.vivo["verificador"] = "alive"
    /\ Len(bio.tomados) = 3
    /\ LET resultados == resultados_de(bio.tomados)
           bloque == bloque_de(resultados, HashInicial)
           blockchain == Append(bio.blockchain, bloque)
       IN IF clave_ausente(resultados) # ""
          THEN bio' = [bio EXCEPT !.error = clave_ausente(resultados),
                                  !.vivo["verificador"] = "exited"]
          ELSE bio' = [bio EXCEPT
                         !.tomados = <<>>,
                         !.blockchain = blockchain,
                         !.bloque_anterior_hash = bloque.hash,
                         !.fichero = blockchain,
                         !.vivo["verificador"] =
                             IF Len(blockchain) = TOTAL_MUESTRAS
                             THEN "exited" ELSE "alive"]
    /\ UNCHANGED BioRest

\* The rest of an iteration of the verifier once it holds three results:
\* a missing tipo raises KeyError, which ends the process in its except
\* clause; otherwise the block is built, appended and the file rewritten.
proceso_verificador_bloque ==
    /\ bio.state = "up" /\ bio.vivo["verificador"] = "alive"
    /\ Len(bio.tomados) = 3
    /\ LET resultados == resultados_de(bio.tomados)
           bloque == bloque_de(resultados, bio.bloque_anterior_hash)
           blockchain == Append(bio.blockchain, bloque)
       IN IF clave_ausente(resultados) # ""
          THEN bio' = [bio EXCEPT !.error = clave_ausente(resultados),
                                  !.vivo["verificador"] = "exited"]
          ELSE bio' = [bio EXCEPT
                         !.tomados = <<>>,
                         !.blockchain = blockchain,
                         !.bloque_anterior_hash = bloque.hash,
                         !.fichero = blockchain,
                         !.vivo["verificador"] =
                             IF Len(blockchain) = TOTAL_MUESTRAS
                             THEN "exited" ELSE "alive"]
    /\ UNCHANGED BioRest

BioNext ==
    \/ proceso_principal_start
    \/ proceso_principal_send
    \/ proceso_principal_close
    \/ \E p \in Procesos : proceso_principal_terminate(p)
    \/ \E tipo \in Tipos : proceso_analizador(tipo)
    \/ proceso_verificador_get
    \/ proceso_verificador_bloque

BioSpec == Init /\ [][BioNext]_vars


\* ------------------------------------------------------------ C35
\* The window an analyzer holds after the n-th sample.
VentanaTras(tipo, n) ==
    [i \in 1..(IF n < VENTANA_MOVIL THEN n ELSE VENTANA_MOVIL) |->
        lectura(tipo, bio.muestras[i + (IF n < VENTANA_MOVIL THEN 0 ELSE n - VENTANA_MOVIL)])]

\* C35: for every interleaving of the analyzers' puts, the three results
\* the verifier has taken for a block are one frecuencia, one presion and
\* one oxigeno result with the same timestamp, and the verifier does not
\* fail on a missing tipo.
C35_VerifierTakesOneSamplePerBlock ==
    bio.state = "up" =>
        /\ bio.error = ""
        /\ Len(bio.tomados) = 3 =>
             /\ {bio.tomados[i].tipo : i \in 1..3} = Tipos
             /\ \A i, j \in 1..3 : bio.tomados[i].timestamp = bio.tomados[j].timestamp

\* What holds: the n-th block of the chain is built from the three results
\* of the n-th sample.
BloquesSinMezcla ==
    bio.state = "up" =>
        \A n \in DOMAIN bio.blockchain :
            /\ bio.blockchain[n].timestamp = n
            /\ \A t \in Tipos :
                 bio.blockchain[n].datos[t] =
                     [media |-> media_de(VentanaTras(t, n)),
                      desv |-> calcular_desviacion_estandar(VentanaTras(t, n))]


\* ============================================ TP1/verificar_cadena.py
\* The loop of verificar_cadena from block i on, with prev_hash the hash of
\* the block before: the number of invalid blocks counted before the break.
RECURSIVE bloques_invalidos(_, _, _)
bloques_invalidos(blockchain, i, prev_hash) ==
    IF i > Len(blockchain) THEN 0
    ELSE LET bloque == blockchain[i]
         IN IF bloque.prev_hash # prev_hash THEN 1
            ELSE IF bloque.hash # sha256(prev_hash, bloque.datos, bloque.timestamp)
            THEN 1
            ELSE bloques_invalidos(blockchain, i + 1, bloque.hash)

\* verificar_cadena on a file that holds the list blockchain.
verificar_cadena(blockchain) ==
    IF blockchain = <<>> THEN FALSE
    ELSE bloques_invalidos(blockchain, 1, HashInicial) = 0

\* ------------------------------------------------------------ C36
\* The chain is hash-linked.
Encadenada(blockchain) ==
    \A i \in DOMAIN blockchain :
        /\ blockchain[i].prev_hash =
               IF i = 1 THEN HashInicial ELSE blockchain[i - 1].hash
        /\ blockchain[i].hash =
               sha256(blockchain[i].prev_hash, blockchain[i].datos,
                      blockchain[i].timestamp)

\* Hashes to put in the place of a block's prev_hash or hash.
OtrosHashes(blockchain) ==
    {HashInicial, sha256(HashInicial, <<>>, 0)}
        \cup {blockchain[i].hash : i \in DOMAIN blockchain}

\* The chains that differ from blockchain in the prev_hash or the hash of
\* one block.
Alteradas(blockchain) ==
    ({[blockchain EXCEPT ![i].prev_hash = h] :
         i \in DOMAIN blockchain, h \in OtrosHashes(blockchain)}
     \cup {[blockchain EXCEPT ![i].hash = h] :
         i \in DOMAIN blockchain, h \in OtrosHashes(blockchain)})
    \ {blockchain}

\* C36: the chain file the verifier wrote is hash-linked: the first
\* prev_hash is the initial hash, every later prev_hash is the hash of the
\* block before, and every hash is the digest of the block's prev_hash,
\* data and timestamp.  verificar_cadena returns True on every non-empty
\* file the verifier wrote and False on the file with the prev_hash or the
\* hash of one block changed.
C36_PersistedChainIsLinked ==
    bio.state = "up" =>
        /\ Encadenada(bio.fichero)
        /\ bio.fichero = bio.blockchain
        /\ bio.fichero # <<>> => verificar_cadena(bio.fichero)
        /\ \A alterada \in Alteradas(bio.fichero) :
             /\ ~Encadenada(alterada)
             /\ ~verificar_cadena(alterada)

\* The verifier wrote all the blocks; the file verifies, and it does not
\* when the prev_hash of its last block or the hash of its first is changed.
C36_Witness ==
    /\ bio.state = "up"
    /\ Len(bio.fichero) = TOTAL_MUESTRAS
    /\ verificar_cadena(bio.fichero)
    /\ ~verificar_cadena([bio.fichero EXCEPT ![TOTAL_MUESTRAS].prev_hash = HashInicial])
    /\ ~verificar_cadena([bio.fichero EXCEPT ![1].hash = HashInicial])


\* ------------------------------------------------------------ C37
\* The range generar_datos_biometricos draws the readings of a tipo from,
\* in the units of the means.
RangoDe(tipo) ==
    CASE tipo = "frecuencia" -> (60 * Escala)..(180 * Escala)
      [] tipo = "presion" -> (110 * Escala)..(180 * Escala)
      [] tipo = "oxigeno" -> (90 * Escala)..(100 * Escala)

\* C37: the alerta of a block is true exactly when the frequency mean is
\* at least 200, the pressure mean is at least 200, or the oxygen mean is
\* below 90 or above 100.  Every window holds at most VENTANA_MOVIL
\* readings of its range, so every mean lies in the range of its tipo and
\* no block has alerta = true.
C37_NoBlockRaisesAlert ==
    bio.state = "up" =>
        /\ \A t \in Tipos :
             /\ Len(bio.ventana[t]) <= VENTANA_MOVIL
             /\ bio.ventana[t] # <<>> => media_de(bio.ventana[t]) \in RangoDe(t)
        /\ \A i \in DOMAIN bio.queue : bio.queue[i].media \in RangoDe(bio.queue[i].tipo)
        /\ \A n \in DOMAIN bio.blockchain :
             LET datos == bio.blockchain[n].datos
             IN /\ bio.blockchain[n].alerta <=>
                       \/ datos["frecuencia"].media >= 200 * Escala
                       \/ datos["presion"].media >= 200 * Escala
                       \/ datos["oxigeno"].media < 90 * Escala
                       \/ datos["oxigeno"].media > 100 * Escala
                /\ \A t \in Tipos : datos[t].media \in RangoDe(t)
                /\ ~bio.blockchain[n].alerta

\* Three blocks without alert: the first with the lowest readings (oxygen
\* mean 90), the second with the mean of a low and a high sample, the third
\* with the highest means (180, 180, 100) after the window dropped the
\* first sample.
C37_Witness ==
    /\ bio.state = "up"
    /\ Len(bio.blockchain) = 3
    /\ bio.blockchain[1].datos["oxigeno"].media = 90 * Escala
    /\ bio.blockchain[2].datos["frecuencia"].media = 120 * Escala
    /\ bio.blockchain[3].datos["frecuencia"].media = 180 * Escala
    /\ bio.blockchain[3].datos["presion"].media = 180 * Escala
    /\ bio.blockchain[3].datos["oxigeno"].media = 100 * Escala
    /\ \A n \in 1..3 : ~bio.blockchain[n].alerta

====
